---- MODULE Spec2Model ----
(***************************************************************************)
(* ENTSO-e data integration: the transport client's endpoint failover      *)
(* (api_client.py, EntsoeClient._base_request) and the refresh of the      *)
(* coordinators (coordinator.py).  Time is counted in whole hours.         *)
(***************************************************************************)
EXTENDS Integers, Sequences, FiniteSets, TLC

VARIABLES
    cfg,                        \* the coordinator's constructor arguments
    now,                        \* dt.now(), in hours
    data,                       \* DataUpdateCoordinator.data
    last_successful_update,     \* EntsoeBaseCoordinator.last_successful_update
    _area_missing_counts,       \* per-area miss counter
    _area_suppressed_until,     \* per-area suppression deadline (None: no entry)
    _area_last_suppressed,      \* per-area time of the last suppression
    _area_data,                 \* per-area series kept for the area sensors
    _available_categories,      \* categories of the last fresh series
    _last_total_europe,         \* issues / fallback / no_data bookkeeping
    _all_suppressed_logged,     \* load coordinator's log latch
    last,                       \* the refresh run at the current time, if
                                \* any: what it was run on, what it asked
                                \* and what came of it
    br_responses,               \* what each endpoint answers to the request
    br_result,                  \* outcome of the most recent _base_request
    period,                     \* the Period element handed to the parser
    parse_result,               \* its processed points and filled series
    documents,                  \* the query and the parsed documents it merges
    merged,                     \* the series the query returns
    xml_document,               \* a document's periods and what parsing
                                \* them gives
    session,                    \* what the endpoints do to each HTTP attempt
                                \* and the attempts the session made
    timing,                     \* the wall clock and when requests went out
    others,                     \* the other coordinators of the entry
    reading,                    \* the latest reading of a sensor
    setup,                      \* progress of async_setup_entry
    lookup,                     \* an identifier and what the registry
                                \* makes of it
    sensor                      \* a generation sensor of the coordinator

vars == << cfg, now, data, last_successful_update, _area_missing_counts,
           _area_suppressed_until, _area_last_suppressed, _area_data,
           _available_categories, _last_total_europe, _all_suppressed_logged,
           last, br_responses, br_result, period, parse_result, documents,
           merged, xml_document, session, timing, others, reading, setup,
           lookup, sensor >>

coordVars == << cfg, now, data, last_successful_update, _area_missing_counts,
                _area_suppressed_until, _area_last_suppressed, _area_data,
                _available_categories, _last_total_europe,
                _all_suppressed_logged, last >>

clientVars == << br_responses, br_result >>

parseVars == << period, parse_result, documents, merged, xml_document >>

sessionVars == << session, timing >>

hostVars == << others, reading, setup, lookup, sensor >>

\* Bounds of the model.
MaxTime == 3

\* Python's None for an optional datetime (all real times are >= 0 here).
None == -1

HOUR == 1
DAY == 24

(***************************************************************************)
(* Transport client                                                        *)
(***************************************************************************)

BASE_URLS == << "https://web-api.tp.entsoe.eu/api",
                "https://api.transparency.entsoe.eu/api" >>

\* Variants of the failover statuses: every server error, and the list cut
\* short by its last entry.
FAILOVER_STATUS_any_5xx == {500, 501, 502, 503, 504}
FAILOVER_STATUS_without_504 == {500, 502, 503}

\* Status codes on which _base_request moves on to the next endpoint.
FAILOVER_STATUS == {500, 502, 503, 504}

\* What one session-level GET can do: answer with a status, or raise a
\* network-level exception (status 0).
HttpStatuses == {200, 204, 400, 401, 404, 500, 501, 502, 503, 504}
NetworkErrors == {"ConnectionError", "Timeout"}

Answer(status) == [exc |-> "none", status |-> status]
NetFail(e) == [exc |-> e, status |-> 0]

EndpointBehaviours ==
    {Answer(s) : s \in HttpStatuses} \cup {NetFail(e) : e \in NetworkErrors}

EndpointRuns == [1..Len(BASE_URLS) -> EndpointBehaviours]

\* A variant of raise_for_status that takes only server errors for errors.
raise_for_status_server_only(status) == status >= 500 /\ status < 600

\* response.raise_for_status(): HTTPError for 400 <= status < 600.
raise_for_status(status) == status >= 400 /\ status < 600

NoError == [exc |-> "none", status |-> 0]

\* The loop of _base_request from endpoint i on.  responses[i] is what
\* the i-th endpoint does when contacted; calls collects the URLs contacted.
RECURSIVE BaseRequestLoop(_, _, _, _)
BaseRequestLoop(i, last_error, calls, responses) ==
    IF i > Len(BASE_URLS)
    THEN IF last_error = NoError
         THEN [raised |-> TRUE, exc |-> "RuntimeError", status |-> 0,
               calls |-> calls]
         ELSE [raised |-> TRUE, exc |-> last_error.exc,
               status |-> last_error.status, calls |-> calls]
    ELSE LET r == responses[i]
             called == Append(calls, BASE_URLS[i])
         IN  IF r.exc = "none"
             THEN IF raise_for_status(r.status)
                  THEN IF r.status \in FAILOVER_STATUS
                       THEN BaseRequestLoop(i + 1,
                                [exc |-> "HTTPError", status |-> r.status],
                                called, responses)
                       ELSE [raised |-> TRUE, exc |-> "HTTPError",
                             status |-> r.status, calls |-> called]
                  ELSE [raised |-> FALSE, exc |-> "none",
                        status |-> r.status, calls |-> called]
             ELSE BaseRequestLoop(i + 1, [exc |-> r.exc, status |-> 0],
                                  called, responses)

_base_request(responses) == BaseRequestLoop(1, NoError, << >>, responses)

BrIdle == [raised |-> FALSE, exc |-> "idle", status |-> 0, calls |-> << >>]

\* The wall clock runs to MaxClock; REQUEST_DELAY is the delay the client
\* is to keep between two requests, in ticks of that clock.
MaxClock == 2
REQUEST_DELAY == 2

NoTiming == [clock |-> 0, issued |-> << >>]

\* The times of the last two requests once another goes out at time t.
Issued(issued, t) ==
    IF issued = << >> THEN << t >> ELSE << issued[Len(issued)], t >>

\* Retry(total=3, status_forcelist=(500, 502, 503, 504),
\* raise_on_status=False) mounted on the session: total is the number of
\* retries allowed after the first attempt.
RETRY_TOTAL == 3
STATUS_FORCELIST == {500, 502, 503, 504}

\* What an endpoint does to the successive HTTP attempts of one GET.
AttemptOutcomes == {Answer(200), Answer(503), NetFail("ConnectionError")}
AttemptRuns == [1..(RETRY_TOTAL + 2) -> AttemptOutcomes]

\* A variant of the retry loop that never retries.
SessionLoop_without_retry(run, i, total) ==
    [response |-> run[i], attempts |-> i]

\* The retry loop of the adapter at attempt i with total retries left.  A
\* status of the forcelist is retried while total is not 0 and returned as
\* the response otherwise; a connection failure is retried until total
\* would drop below 0 and raised as ConnectionError then.
RECURSIVE SessionLoop(_, _, _)
SessionLoop(run, i, total) ==
    IF (run[i].exc = "none" /\ run[i].status \in STATUS_FORCELIST
                            /\ total # 0)
       \/ (run[i].exc # "none" /\ total - 1 >= 0)
    THEN SessionLoop(run, i + 1, total - 1)
    ELSE [response |-> run[i], attempts |-> i]

\* self._session.get(url, ...) against an endpoint that behaves as run.
session_get(run) == SessionLoop(run, 1, RETRY_TOTAL)

NoSession == [runs |-> << >>, attempts |-> << >>]

ClientInit ==
    /\ br_responses = << >>
    /\ br_result = BrIdle
    /\ session = NoSession
    /\ timing = NoTiming

\* One call of _base_request on a session whose GET behaves as responses
\* (the session of the tests); the request goes out at once.
BaseRequest ==
    \E responses \in EndpointRuns :
        /\ br_responses' = responses
        /\ br_result' = _base_request(responses)
        /\ timing' = [timing EXCEPT
                         !.issued = Issued(timing.issued, timing.clock)]
        /\ UNCHANGED << coordVars, parseVars, session, hostVars >>

\* Time passes between two requests.
ClockTick ==
    /\ timing.clock < MaxClock
    /\ timing' = [timing EXCEPT !.clock = timing.clock + 1]
    /\ UNCHANGED << coordVars, clientVars, parseVars, session, hostVars >>

\* A request is about to go out to endpoints that behave as session.runs.
RetryCalled ==
    /\ br_responses = << >>
    /\ br_result = BrIdle
    /\ session \in [runs : [1..Len(BASE_URLS) -> AttemptRuns],
                     attempts : {<< >>}]
    /\ timing = NoTiming

\* One call of _base_request on the session with its retrying adapter.
BaseRequestRetrying ==
    /\ session.runs # << >>
    /\ br_result = BrIdle
    /\ \E responses \in
            {[i \in 1..Len(BASE_URLS) |-> session_get(session.runs[i]).response]} :
          \E result \in {_base_request(responses)} :
            /\ br_responses' = responses
            /\ br_result' = result
            /\ session' = [session EXCEPT !.attempts =
                    [i \in 1..Len(BASE_URLS) |->
                        IF i <= Len(result.calls)
                        THEN session_get(session.runs[i]).attempts
                        ELSE 0]]
    /\ UNCHANGED << coordVars, parseVars, timing, hostVars >>

(***************************************************************************)
(* Area enumeration of the client (api_client.py, class Area).  A string   *)
(* is its letters in upper case, the casing it is written in, and whether  *)
(* it is the whole of them or only a part.                                 *)
(***************************************************************************)

Str(base, casing, part) == [base |-> base, casing |-> casing, part |-> part]

Whole(base) == Str(base, "upper", "whole")

\* str.upper()
upper(text) == [text EXCEPT !.casing = "upper"]

\* Members of Area in the order of their definition: LU_BZN has the value
\* of DE_LU and so is another name of that member.
AREA_MEMBERS ==
    << [name |-> "BE", value |-> "10YBE----------2"],
       [name |-> "TOTAL_EUROPE", value |-> "10Y1001A1001A876"],
       [name |-> "DE_LU", value |-> "10Y1001A1001A82H"],
       [name |-> "IS", value |-> "IS"],
       [name |-> "LU_BZN", value |-> "10Y1001A1001A82H"],
       [name |-> "NL", value |-> "10YNL----------L"] >>

\* The member a value belongs to: the first one defined with it.
MemberOfValue(value) ==
    AREA_MEMBERS[CHOOSE i \in DOMAIN AREA_MEMBERS :
                    /\ AREA_MEMBERS[i].value = value
                    /\ \A j \in 1..(i - 1) : AREA_MEMBERS[j].value # value].name

\* cls.__members__: names, aliases included, to members.
__members__ ==
    [text \in {Whole(AREA_MEMBERS[i].name) : i \in DOMAIN AREA_MEMBERS} |->
        MemberOfValue((CHOOSE m \in {AREA_MEMBERS[i] : i \in DOMAIN AREA_MEMBERS} :
                          m.name = text.base).value)]

\* cls._value2member_map_: values to members.
_value2member_map_ ==
    [text \in {Whole(AREA_MEMBERS[i].value) : i \in DOMAIN AREA_MEMBERS} |->
        MemberOfValue(text.base)]

\* A variant of has_code that takes names and exact values only.
has_code_without_upper_value(code) ==
    \/ upper(code) \in DOMAIN __members__
    \/ code \in DOMAIN _value2member_map_

\* Area.has_code(code) for a string.
has_code(code) ==
    \/ upper(code) \in DOMAIN __members__
    \/ code \in DOMAIN _value2member_map_
    \/ upper(code) \in DOMAIN _value2member_map_

Resolved(area, step) == [raised |-> FALSE, area |-> area, step |-> step]
UnknownArea == [raised |-> TRUE, area |-> "none", step |-> "KeyError"]

\* Area.from_identifier(value) for a string.
from_identifier(value) ==
    IF upper(value) \in DOMAIN __members__
    THEN Resolved(__members__[upper(value)], "name")
    ELSE IF value \in DOMAIN _value2member_map_
    THEN Resolved(_value2member_map_[value], "value")
    ELSE IF upper(value) \in DOMAIN _value2member_map_
    THEN Resolved(_value2member_map_[upper(value)], "upper value")
    ELSE UnknownArea

\* The strings looked up: names, values and a string that is neither, in
\* three casings, whole or in part.
Identifiers ==
    { Str(base, casing, part) :
        base \in {AREA_MEMBERS[i].name : i \in DOMAIN AREA_MEMBERS}
                 \cup {AREA_MEMBERS[i].value : i \in DOMAIN AREA_MEMBERS}
                 \cup {"XX"},
        casing \in {"upper", "lower", "mixed"},
        part \in {"whole", "part"} }

NoLookup == [identifier |-> Whole("none"), done |-> FALSE,
             has_code |-> FALSE, resolved |-> UnknownArea]

\* A string is about to be looked up.
LookupCalled ==
    lookup \in [identifier : Identifiers, done : {FALSE},
                has_code : {FALSE}, resolved : {UnknownArea}]

\* has_code and from_identifier are called with the string.
Lookup ==
    /\ lookup # NoLookup
    /\ ~lookup.done
    /\ lookup' = [lookup EXCEPT !.done = TRUE,
                                !.has_code = has_code(lookup.identifier),
                                !.resolved = from_identifier(lookup.identifier)]
    /\ UNCHANGED << coordVars, clientVars, parseVars, sessionVars, others,
                    reading, setup, sensor >>

(***************************************************************************)
(* Area registry and coordinator configuration                             *)
(***************************************************************************)

TOTAL_EUROPE_AREA == "TOTAL_EUROPE"

\* AREA_INFO in source order, cut down to the synthetic aggregate, one area
\* with a code of its own and the two areas that share the code DE_LU.
AREA_INFO == << [key |-> "TOTAL_EUROPE", code |-> "10Y1001A1001A876"],
                [key |-> "BE", code |-> "BE"],
                [key |-> "LU", code |-> "DE_LU"],
                [key |-> "DE", code |-> "DE_LU"] >>

AreaKeys == {AREA_INFO[i].key : i \in 1..Len(AREA_INFO)}
AreaCodes == {AREA_INFO[i].code : i \in 1..Len(AREA_INFO)}

\* EntsoeLoadCoordinator._area_keys
_area_keys == AreaKeys \ {TOTAL_EUROPE_AREA}

AreaCode(key) ==
    AREA_INFO[CHOOSE i \in 1..Len(AREA_INFO) : AREA_INFO[i].key = key].code

STALENESS_MULTIPLIER == 3

LOAD_FORECAST_HORIZON_DAY_AHEAD == "day_ahead"
LOAD_FORECAST_HORIZON_WEEK_AHEAD == "week_ahead"
LOAD_FORECAST_HORIZON_MONTH_AHEAD == "month_ahead"
LOAD_FORECAST_HORIZON_YEAR_AHEAD == "year_ahead"

\* LOAD_FORECAST_HORIZONS: update_interval and look_ahead of each horizon.
LOAD_FORECAST_HORIZONS ==
    { [horizon |-> LOAD_FORECAST_HORIZON_DAY_AHEAD,
       update_interval |-> 1 * HOUR, look_ahead |-> 3 * DAY],
      [horizon |-> LOAD_FORECAST_HORIZON_WEEK_AHEAD,
       update_interval |-> 6 * HOUR, look_ahead |-> 14 * DAY],
      [horizon |-> LOAD_FORECAST_HORIZON_MONTH_AHEAD,
       update_interval |-> 12 * HOUR, look_ahead |-> 62 * DAY],
      [horizon |-> LOAD_FORECAST_HORIZON_YEAR_AHEAD,
       update_interval |-> 24 * HOUR, look_ahead |-> 370 * DAY] }

HorizonConfig(h) == CHOOSE c \in LOAD_FORECAST_HORIZONS : c.horizon = h

\* The coordinators async_setup_entry can create: each kind for the
\* configured area and (generation forecast excepted) for the aggregate.
Configs ==
    { [kind |-> k, horizon |-> LOAD_FORECAST_HORIZON_DAY_AHEAD, area_key |-> a] :
        k \in {"generation", "wind_solar_forecast"},
        a \in {"BE", TOTAL_EUROPE_AREA} }
    \cup
    { [kind |-> "load", horizon |-> c.horizon, area_key |-> a] :
        c \in LOAD_FORECAST_HORIZONS, a \in {"BE", TOTAL_EUROPE_AREA} }
    \cup
    { [kind |-> "generation_forecast",
       horizon |-> LOAD_FORECAST_HORIZON_DAY_AHEAD, area_key |-> "BE"] }

IsAggregate(c) == c.area_key = TOTAL_EUROPE_AREA
HasCategories(c) == c.kind \in {"generation", "wind_solar_forecast"}

\* update_interval handed to DataUpdateCoordinator.__init__.
update_interval(c) ==
    IF c.kind = "load" THEN HorizonConfig(c.horizon).update_interval
    ELSE 1 * HOUR

\* end - start of the request window.
look_ahead(c) ==
    IF c.kind = "load" THEN HorizonConfig(c.horizon).look_ahead
    ELSE 3 * DAY

\* A variant of the threshold that is the same for every horizon.
_missing_threshold_always_three(c) == 3

_missing_threshold(c) ==
    IF c.kind = "load"
    THEN (IF c.horizon = LOAD_FORECAST_HORIZON_DAY_AHEAD THEN 3 ELSE 1)
    ELSE 3

_suppression_duration(c) ==
    IF c.kind = "load"
    THEN IF c.horizon = LOAD_FORECAST_HORIZON_DAY_AHEAD THEN 6 * HOUR
         ELSE IF c.horizon = LOAD_FORECAST_HORIZON_WEEK_AHEAD THEN 12 * HOUR
         ELSE IF c.horizon = LOAD_FORECAST_HORIZON_MONTH_AHEAD THEN 1 * DAY
         ELSE 3 * DAY
    ELSE 6 * HOUR

(***************************************************************************)
(* Series: a function from hourly timestamps to a value (load, generation   *)
(* forecast) or to a function from categories to values.                   *)
(***************************************************************************)

EmptySeries == << >>

Truthy(series) == DOMAIN series # {}

SetMin(S) == CHOOSE x \in S : \A y \in S : x <= y
SetMax(S) == CHOOSE x \in S : \A y \in S : x >= y

\* _copy_data: a fresh dict with the same timestamps and (copied) values.
_copy_data(d) ==
    IF ~Truthy(d) THEN EmptySeries ELSE [t \in DOMAIN d |-> d[t]]

\* A variant of the cache test without the margin.
CacheSufficient_without_margin(d, start, end) ==
    /\ Truthy(d)
    /\ SetMin(DOMAIN d) <= start
    /\ SetMax(DOMAIN d) >= end

\* _cached_data_if_sufficient(start, end) is not None (margin: one hour).
CacheSufficient(d, start, end) ==
    /\ Truthy(d)
    /\ SetMin(DOMAIN d) <= start
    /\ SetMax(DOMAIN d) >= end - 1 * HOUR

\* A variant of is_data_stale that is stale from the threshold on.
is_data_stale_from_threshold(c, d, lsu, t) ==
    IF lsu = None THEN TRUE
    ELSE IF ~Truthy(d) THEN TRUE
    ELSE (t - lsu) >= update_interval(c) * STALENESS_MULTIPLIER

\* is_data_stale() of a coordinator holding d, last refreshed at lsu.
is_data_stale(c, d, lsu, t) ==
    IF lsu = None THEN TRUE
    ELSE IF ~Truthy(d) THEN TRUE
    ELSE (t - lsu) > update_interval(c) * STALENESS_MULTIPLIER

\* A variant of available that does not ask the coordinator.
available_ignoring_staleness(_last_update_success, super_available, stale) ==
    IF ~_last_update_success THEN FALSE
    ELSE IF ~super_available THEN FALSE
    ELSE TRUE

\* _HourlyCoordinatorSensor.available (sensor.py): _last_update_success is
\* the sensor's own flag, super_available what the host's entity reports,
\* stale the value of coordinator.is_data_stale().
available(_last_update_success, super_available, stale) ==
    IF ~_last_update_success THEN FALSE
    ELSE IF ~super_available THEN FALSE
    ELSE IF stale THEN FALSE
    ELSE TRUE

\* _sorted_timestamps(d): the timestamps of the series held.
_sorted_timestamps(d) == DOMAIN d

Found(t) == [found |-> TRUE, timestamp |-> t]
NotFound == [found |-> FALSE, timestamp |-> 0]

\* _select_current_timestamp(ref): the first timestamp <= ref going
\* backwards, else the last timestamp of all, else None.
_select_current_timestamp(d, ref) ==
    IF \E t \in _sorted_timestamps(d) : t <= ref
    THEN Found(SetMax({t \in _sorted_timestamps(d) : t <= ref}))
    ELSE IF _sorted_timestamps(d) # {}
    THEN Found(SetMax(_sorted_timestamps(d)))
    ELSE NotFound

\* _select_next_timestamp(ref): the first timestamp > ref, else None.
_select_next_timestamp(d, ref) ==
    IF \E t \in _sorted_timestamps(d) : t > ref
    THEN Found(SetMin({t \in _sorted_timestamps(d) : t > ref}))
    ELSE NotFound

(***************************************************************************)
(* Query layer as the coordinators see it                                  *)
(***************************************************************************)

\* The endpoint behaviours the coordinator's queries are run against.
QueryBehaviours ==
    { Answer(200), Answer(204), Answer(400), Answer(401), Answer(503),
      NetFail("ConnectionError"), NetFail("Timeout") }

\* What _base_request hands to a query_* method, the URLs left aside.
RequestResults ==
    { [raised |-> r.raised, exc |-> r.exc, status |-> r.status] :
        r \in { _base_request(rs) :
                  rs \in [1..Len(BASE_URLS) -> QueryBehaviours] } }

\* query_generation_per_type / query_total_load_forecast /
\* query_generation_forecast / query_wind_solar_forecast: the exception of
\* _base_request propagates; a 200 response is parsed and merged into the
\* series parsed; any other response yields None.
Query(result, parsed) ==
    IF result.raised
    THEN [raised |-> TRUE, exc |-> result.exc, status |-> result.status,
          is_none |-> FALSE, value |-> EmptySeries]
    ELSE IF result.status = 200
    THEN [raised |-> FALSE, exc |-> "none", status |-> 200,
          is_none |-> FALSE, value |-> parsed]
    ELSE [raised |-> FALSE, exc |-> "none", status |-> result.status,
          is_none |-> TRUE, value |-> EmptySeries]

\* A RequestException of no subclass whose message is "timeout", as the
\* tests of the generation forecast coordinator raise it.
PLAIN_TIMEOUT == "RequestException: timeout"

\* requests.exceptions: HTTPError and the network errors are
\* RequestExceptions; Timeout (with ReadTimeout, ConnectTimeout) makes up
\* REQUEST_TIMEOUT_ERRORS.
IsRequestException(out) ==
    out.raised
    /\ out.exc \in {"HTTPError", "ConnectionError", "Timeout", PLAIN_TIMEOUT}
IsHTTPError(out) == out.raised /\ out.exc = "HTTPError"
IsTimeoutError(out) == out.raised /\ out.exc = "Timeout"

\* Series the platform publishes.  The timestamps are fixed: the two ends of
\* the window requested at hour 0.  One series spans the window with non-zero
\* values, the other holds one zero value.
WindowStart == 0 - 1 * DAY
WindowEnd(c) == WindowStart + look_ahead(c)

ScalarSeries(c) ==
    { (WindowStart :> 1) @@ (WindowEnd(c) :> 2),
      (WindowStart :> 0) }

CategorySeries(c) ==
    { (WindowStart :> (("solar" :> 1) @@ ("wind_onshore" :> 2)))
         @@ (WindowEnd(c) :> ("wind_onshore" :> 1)),
      (WindowStart :> ("solar" :> 0)) }

PublishedSeries(c) ==
    (IF HasCategories(c) THEN CategorySeries(c) ELSE ScalarSeries(c))
    \cup {EmptySeries}

QueryOutcomes(c) ==
    { Query(r, s) : r \in RequestResults, s \in PublishedSeries(c) }

NoQuery == Query([raised |-> FALSE, exc |-> "none", status |-> 204], EmptySeries)

(***************************************************************************)
(* Aggregation over the constituent areas                                  *)
(***************************************************************************)

At(series, t, zero) == IF t \in DOMAIN series THEN series[t] ELSE zero

\* aggregate[timestamp] += value, for every point of response.
AddScalar(aggregate, response) ==
    [t \in DOMAIN aggregate \cup DOMAIN response |->
        At(aggregate, t, 0) + At(response, t, 0)]

\* aggregate[timestamp][category] += value, for every point of response.
AddCategories(aggregate, response) ==
    [t \in DOMAIN aggregate \cup DOMAIN response |->
        LET a == At(aggregate, t, << >>)
            r == At(response, t, << >>)
        IN  [k \in DOMAIN a \cup DOMAIN r |-> At(a, k, 0) + At(r, k, 0)]]

AddResponse(c, aggregate, response) ==
    IF HasCategories(c) THEN AddCategories(aggregate, response)
    ELSE AddScalar(aggregate, response)

\* has_non_zero of the loop body.
HasNonZero(c, response) ==
    IF HasCategories(c)
    THEN \E t \in DOMAIN response : \E k \in DOMAIN response[t] :
            response[t][k] # 0
    ELSE \E t \in DOMAIN response : response[t] # 0

\* A variant of the miss branch that leaves the counter at the threshold
\* when it suppresses the area.
RecordMiss_keeping_count(c, st, key, t) ==
    LET count == st.counts[key] + 1
        suppress == count >= _missing_threshold(c)
    IN  [st EXCEPT
            !.missing_areas = @ \cup {key},
            !.counts[key] = count,
            !.until[key] = IF suppress THEN t + _suppression_duration(c) ELSE @,
            !.last_suppressed[key] = IF suppress THEN t ELSE @,
            !.suppressed_this_run = IF suppress THEN Append(@, key) ELSE @]

\* The miss branch shared by "not response" and "except RequestException".
RecordMiss(c, st, key, t) ==
    LET count == st.counts[key] + 1
        suppress == count >= _missing_threshold(c)
    IN  [st EXCEPT
            !.missing_areas = @ \cup {key},
            !.counts[key] = IF suppress THEN 0 ELSE count,
            !.until[key] = IF suppress THEN t + _suppression_duration(c) ELSE @,
            !.last_suppressed[key] = IF suppress THEN t ELSE @,
            !.suppressed_this_run = IF suppress THEN Append(@, key) ELSE @]

\* A variant of the success branch that leaves the miss counter alone.
RecordSuccess_keeping_count(c, st, key, response) ==
    LET was_suppressed == st.last_suppressed[key] # None
    IN  [st EXCEPT
            !.recovered_this_run = IF was_suppressed THEN Append(@, key) ELSE @,
            !.last_suppressed[key] = None,
            !.area_data = [k \in DOMAIN @ \cup {key} |->
                              IF k = key THEN response ELSE @[k]],
            !.aggregate = AddResponse(c, @, response),
            !.zero_only_areas =
                IF HasNonZero(c, response) THEN @ ELSE @ \cup {key}]

\* A variant of the success branch that keeps the series of the last
\* successful area only.
RecordSuccess_alone(c, st, key, response) ==
    LET was_suppressed == st.last_suppressed[key] # None
    IN  [st EXCEPT
            !.counts[key] = 0,
            !.recovered_this_run = IF was_suppressed THEN Append(@, key) ELSE @,
            !.last_suppressed[key] = None,
            !.area_data = [k \in {key} |-> response],
            !.aggregate = AddResponse(c, @, response),
            !.zero_only_areas =
                IF HasNonZero(c, response) THEN @ ELSE @ \cup {key}]

\* The success branch of the loop body.
RecordSuccess(c, st, key, response) ==
    LET was_suppressed == st.last_suppressed[key] # None
    IN  [st EXCEPT
            !.counts[key] = 0,
            !.recovered_this_run = IF was_suppressed THEN Append(@, key) ELSE @,
            !.last_suppressed[key] = None,
            !.area_data = [k \in DOMAIN @ \cup {key} |->
                              IF k = key THEN response ELSE @[k]],
            !.aggregate = AddResponse(c, @, response),
            !.zero_only_areas =
                IF HasNonZero(c, response) THEN @ ELSE @ \cup {key}]

\* A variant of the loop body that takes a series of zeros for no data.
QueryArea_zero_is_missing(c, st, key, code, out, t) ==
    LET asked == [st EXCEPT !.queries =
                     Append(@, [key |-> key, code |-> code, out |-> out])]
    IN  IF IsRequestException(out) THEN RecordMiss(c, asked, key, t)
        ELSE IF ~Truthy(out.value) \/ ~HasNonZero(c, out.value)
        THEN RecordMiss(c, asked, key, t)
        ELSE RecordSuccess(c, asked, key, out.value)

\* The query of one area that is not suppressed, and what the loop body
\* does with what comes back.
QueryArea(c, st, key, code, out, t) ==
    LET asked == [st EXCEPT !.queries =
                     Append(@, [key |-> key, code |-> code, out |-> out])]
    IN  IF IsRequestException(out) THEN RecordMiss(c, asked, key, t)
        ELSE IF ~Truthy(out.value) THEN RecordMiss(c, asked, key, t)
        ELSE RecordSuccess(c, asked, key, out.value)

\* A variant of the loop body that asks every area, suppressed or not.
VisitArea_ignoring_suppression(c, st, key, code, suppress_until, answers, t) ==
    QueryArea(c, [st EXCEPT !.seen_codes = @ \cup {code}],
              key, code, answers[code], t)

\* A variant of the loop body that leaves an expired deadline in place.
VisitArea_keeping_deadline(c, st, key, code, suppress_until, answers, t) ==
    IF suppress_until # None /\ suppress_until > t
    THEN [st EXCEPT !.seen_codes = @ \cup {code},
                    !.missing_areas = @ \cup {key}]
    ELSE QueryArea(c, [st EXCEPT !.seen_codes = @ \cup {code}],
                   key, code, answers[code], t)

\* The loop body for an area whose code has not been seen in this pass.
VisitArea(c, st, key, code, suppress_until, answers, t) ==
    IF suppress_until # None /\ suppress_until > t
    THEN [st EXCEPT !.seen_codes = @ \cup {code},
                    !.missing_areas = @ \cup {key}]
    ELSE QueryArea(c,
             [st EXCEPT !.seen_codes = @ \cup {code},
                        !.until[key] =
                            IF suppress_until # None /\ suppress_until <= t
                            THEN None ELSE @],
             key, code, answers[code], t)

\* A variant of the loop's entry that does not look at the codes seen.
AreaStep_without_seen_codes(c, st, key, code, answers, t) ==
    IF key = TOTAL_EUROPE_AREA THEN st
    ELSE VisitArea(c, st, key, code, st.until[key], answers, t)

\* The body of "for area_key, info in AREA_INFO.items()" for one entry.
\* answers[code] is what the query for that code comes back with.
AreaStep(c, st, key, code, answers, t) ==
    IF key = TOTAL_EUROPE_AREA THEN st
    ELSE IF code \in st.seen_codes THEN st
    ELSE VisitArea(c, st, key, code, st.until[key], answers, t)

RECURSIVE AreaLoop(_, _, _, _, _)
AreaLoop(c, i, st, answers, t) ==
    IF i > Len(AREA_INFO) THEN st
    ELSE AreaLoop(c, i + 1,
                  AreaStep(c, st, AREA_INFO[i].key, AREA_INFO[i].code,
                           answers, t),
                  answers, t)

\* The end of _query_total_europe_load: the all-suppressed log latch (the
\* generation and wind/solar loops have none).
AfterLoop(c, st, logged, t) ==
    st @@
    [logged |->
        IF c.kind # "load" THEN logged
        ELSE IF ~(\E k \in _area_keys : st.until[k] = None \/ st.until[k] <= t)
                /\ (\E k \in _area_keys : st.until[k] # None)
        THEN TRUE
        ELSE FALSE]

\* _query_total_europe_generation / _load / _wind_solar_forecast.
_query_total_europe(c, counts, until, last_suppressed, area_data, logged, answers, t) ==
    AfterLoop(c,
        AreaLoop(c, 1,
            [aggregate |-> EmptySeries, seen_codes |-> {},
             missing_areas |-> {}, zero_only_areas |-> {},
             suppressed_this_run |-> << >>, recovered_this_run |-> << >>,
             counts |-> counts, until |-> until,
             last_suppressed |-> last_suppressed,
             area_data |-> area_data, queries |-> << >>],
            answers, t),
        logged, t)

\* _handle_total_europe_issues: the fallback it returns (is_none: it returned
\* None) and the bookkeeping it leaves behind.
_handle_total_europe_issues(te, d, missing_areas, zero_only_areas, has_fresh_data) ==
    LET fallback_required == missing_areas # {}
        fallback_active == fallback_required /\ ~has_fresh_data
        previous_fallback == te.fallback
        issues == [te EXCEPT !.missing = missing_areas,
                             !.zero = zero_only_areas]
    IN  IF ~fallback_required
        THEN [is_none |-> TRUE, value |-> EmptySeries,
              te |-> [issues EXCEPT !.fallback = FALSE, !.no_data = FALSE]]
        ELSE IF fallback_active
        THEN IF Truthy(d)
             THEN [is_none |-> FALSE, value |-> _copy_data(d),
                   te |-> [issues EXCEPT !.fallback = TRUE,
                                         !.no_data = FALSE]]
             ELSE [is_none |-> FALSE, value |-> EmptySeries,
                   te |-> [issues EXCEPT
                             !.fallback = TRUE,
                             !.no_data = IF ~previous_fallback THEN TRUE
                                         ELSE @]]
        ELSE [is_none |-> TRUE, value |-> EmptySeries,
              te |-> [issues EXCEPT !.fallback = FALSE, !.no_data = FALSE]]

(***************************************************************************)
(* Parsing of a period and merging of documents (api_client.py).  A point   *)
(* carries a value with two decimals, counted in hundredths; a parsed      *)
(* value is counted in quarters of a hundredth, so that the mean of four   *)
(* quarter-hour values is a whole number.                                  *)
(***************************************************************************)

\* Bounds of the parser's inputs.
MaxPosition == 5
MaxHours == 3
MaxDocuments == 2
MaxPeriods == 2

PointValues == {28, 40, 41}

\* float(value_element.text), in quarters of a hundredth.
Float(v) == 4 * v

Resolutions == {"PT60M", "PT1H", "PT15M", "PT30M"}

\* _normalize_resolution; "unsupported" stands for the ValueError.
_normalize_resolution(resolution) ==
    IF resolution \in {"PT60M", "PT1H"} THEN "PT60M"
    ELSE IF resolution = "PT15M" THEN "PT15M"
    ELSE "unsupported"

\* round_digits: 2 (the default, used for prices) or none.
NoRounding == "None"
RoundDigits == {"2", NoRounding}

\* A variant of round that does nothing.
round_identity(q, round_digits, tie_up) == q

\* round(value, round_digits) of a value q with four decimals at most.  A
\* value half way between two hundredths goes up or down with the binary
\* float that stands for it (tie_up).
round(q, round_digits, tie_up) ==
    IF round_digits = NoRounding THEN q
    ELSE LET rem == q % 4
         IN  IF rem = 0 THEN q
             ELSE IF rem = 1 THEN q - 1
             ELSE IF rem = 3 THEN q + 1
             ELSE IF tie_up THEN q + 2 ELSE q - 2

\* process_PT60M_points: points maps the positions present to their values.
process_PT60M_points(points, start_time, round_digits, tie_up) ==
    [t \in {start_time + (pos - 1) * HOUR : pos \in DOMAIN points} |->
        round(Float(points[((t - start_time) \div HOUR) + 1]),
              round_digits, tie_up)]

\* last_value when the inner loop of process_PT15M_points has passed idx.
CarriedValue(points, idx) ==
    IF \E pos \in DOMAIN points : pos <= idx
    THEN points[SetMax({pos \in DOMAIN points : pos <= idx})]
    ELSE points[SetMin(DOMAIN points)]

\* process_PT15M_points: sum_values of four quarters is four times their
\* mean, that is their mean in quarters of a hundredth.
process_PT15M_points(points, start_time, round_digits, tie_up) ==
    IF DOMAIN points = {} THEN EmptySeries
    ELSE LET last_hour == (SetMax(DOMAIN points) + 3) \div 4
         IN  [t \in {start_time + hour * HOUR : hour \in 0..(last_hour - 1)} |->
                LET hour == (t - start_time) \div HOUR
                IN  round(CarriedValue(points, hour * 4 + 1)
                            + CarriedValue(points, hour * 4 + 2)
                            + CarriedValue(points, hour * 4 + 3)
                            + CarriedValue(points, hour * 4 + 4),
                          round_digits, tie_up)]

NoValue == [set |-> FALSE, value |-> 0]
Known(v) == [set |-> TRUE, value |-> v]

\* The while loop of _fill_missing_hours from current_time on.
RECURSIVE FillLoop(_, _, _, _)
FillLoop(series, current_time, end_time, last_value) ==
    IF ~(current_time < end_time) THEN series
    ELSE IF current_time \in DOMAIN series
    THEN FillLoop(series, current_time + 1 * HOUR, end_time,
                  Known(series[current_time]))
    ELSE IF last_value.set
    THEN FillLoop((current_time :> last_value.value) @@ series,
                  current_time + 1 * HOUR, end_time, last_value)
    ELSE FillLoop(series, current_time + 1 * HOUR, end_time, last_value)

\* A variant of _fill_missing_hours that fills nothing.
_fill_missing_hours_leaving_gaps(series, start_time, end_time) == series

\* A variant of _fill_missing_hours whose loop also visits end_time.
_fill_missing_hours_through_end(series, start_time, end_time) ==
    FillLoop(series, start_time, end_time + 1 * HOUR,
             IF start_time \in DOMAIN series THEN Known(series[start_time])
             ELSE NoValue)

\* _fill_missing_hours(series, start_time, end_time)
_fill_missing_hours(series, start_time, end_time) ==
    FillLoop(series, start_time, end_time,
             IF start_time \in DOMAIN series THEN Known(series[start_time])
             ELSE NoValue)

\* The process_* call a parse_*_document makes for a period of a supported
\* resolution.
ProcessPoints(p) ==
    IF _normalize_resolution(p.resolution) = "PT60M"
    THEN process_PT60M_points(p.points, p.start, p.round_digits, p.tie_up)
    ELSE process_PT15M_points(p.points, p.start, p.round_digits, p.tie_up)

\* What a parse_*_document does with one period: it skips a period of an
\* unsupported resolution, and fills the processed points of any other.
ParsePeriod(p) ==
    IF _normalize_resolution(p.resolution) = "unsupported"
    THEN [done |-> FALSE, points |-> EmptySeries, series |-> EmptySeries]
    ELSE [done |-> FALSE, points |-> ProcessPoints(p),
          series |-> _fill_missing_hours(ProcessPoints(p), p.start, p.end)]

PointMaps ==
    UNION { [P -> PointValues] : P \in SUBSET (1..MaxPosition) }

Periods ==
    { [resolution |-> r, start |-> 0, end |-> e, points |-> pts,
       round_digits |-> rd.digits, tie_up |-> rd.tie_up] :
        r \in Resolutions, e \in 1..MaxHours, pts \in PointMaps,
        rd \in { [digits |-> "2", tie_up |-> TRUE],
                 [digits |-> "2", tie_up |-> FALSE],
                 [digits |-> NoRounding, tie_up |-> FALSE] } }

\* The five queries and the kind of series they return.
QueryTypes ==
    { "day_ahead_prices", "generation_per_type", "total_load_forecast",
      "generation_forecast", "wind_solar_forecast" }

QueryHasCategories(query) ==
    query \in {"generation_per_type", "wind_solar_forecast"}

\* series.update(parsed): the values of parsed replace those of series.
Update(series, document) ==
    [t \in DOMAIN series \cup DOMAIN document |->
        IF t \in DOMAIN document THEN document[t] ELSE series[t]]

\* What the loop over _iter_response_documents does with one parsed
\* document.
MergeStep(query, series, document) ==
    IF query = "day_ahead_prices" THEN Update(series, document)
    ELSE IF QueryHasCategories(query) THEN AddCategories(series, document)
    ELSE AddScalar(series, document)

\* The loop over the documents of a response, from document i on.
RECURSIVE MergeLoop(_, _, _, _)
MergeLoop(query, series, docs, i) ==
    IF i > Len(docs) THEN series
    ELSE MergeLoop(query, MergeStep(query, series, docs[i]), docs, i + 1)

\* The series a query_* method returns for a 200 response that unwraps to
\* the parsed documents docs.
MergeDocuments(query, docs) == MergeLoop(query, EmptySeries, docs, 1)

\* Parsed documents: an hourly period of two hours, from hour 0 or 1, with
\* both points or the first only.
ScalarDocuments ==
    { ParsePeriod([resolution |-> "PT60M", start |-> s, end |-> s + 2,
                   points |-> pts, round_digits |-> NoRounding,
                   tie_up |-> FALSE]).series :
        s \in {0, 1}, pts \in {(1 :> 40) @@ (2 :> 28), (1 :> 41)} }

WithCategory(category, series) ==
    [t \in DOMAIN series |-> (category :> series[t])]

CategoryDocuments ==
    { WithCategory(c, d) : c \in {"solar", "wind_onshore"},
                           d \in ScalarDocuments }

DocumentsOf(query) ==
    IF QueryHasCategories(query) THEN CategoryDocuments ELSE ScalarDocuments

DocumentRuns(query) ==
    UNION { [1..n -> DocumentsOf(query)] : n \in 1..MaxDocuments }

NoPeriod ==
    [resolution |-> "none", start |-> 0, end |-> 0, points |-> << >>,
     round_digits |-> NoRounding, tie_up |-> FALSE]

NoDocuments == [query |-> "none", docs |-> << >>]

NoDocument == [kind |-> "none", periods |-> << >>, done |-> FALSE,
               raised |-> FALSE, series |-> EmptySeries]

\* Nothing parsed and nothing merged yet.
NoParse == [done |-> FALSE, points |-> EmptySeries, series |-> EmptySeries]

NoMerge == [done |-> FALSE, series |-> EmptySeries]

\* No parser and no query at work.
ParseInit ==
    /\ period = NoPeriod
    /\ parse_result = NoParse
    /\ documents = NoDocuments
    /\ merged = NoMerge
    /\ xml_document = NoDocument

\* A parse_*_document call has come upon period p.
ParseCalled ==
    /\ period \in Periods
    /\ parse_result = NoParse
    /\ documents = NoDocuments
    /\ merged = NoMerge
    /\ xml_document = NoDocument

\* A query_* method has unwrapped a response into parsed documents.
MergeCalled ==
    /\ period = NoPeriod
    /\ parse_result = NoParse
    /\ documents \in UNION { [query : {query}, docs : DocumentRuns(query)] :
                                query \in QueryTypes }
    /\ merged = NoMerge
    /\ xml_document = NoDocument

\* The parser processes and fills the period.
Parse ==
    /\ period # NoPeriod
    /\ ~parse_result.done
    /\ parse_result' = [ParsePeriod(period) EXCEPT !.done = TRUE]
    /\ UNCHANGED << coordVars, clientVars, period, documents, merged,
                    xml_document, sessionVars, hostVars >>

\* The query merges the documents into the series it returns.
Merge ==
    /\ documents # NoDocuments
    /\ ~merged.done
    /\ merged' = [done |-> TRUE,
                  series |-> MergeDocuments(documents.query, documents.docs)]
    /\ UNCHANGED << coordVars, clientVars, period, parse_result, documents,
                    xml_document, sessionVars, hostVars >>

(***************************************************************************)
(* parse_*_document over the periods of a TimeSeries                       *)
(***************************************************************************)

\* The parsers modelled: parse_price_document, and two of those that add
\* up (for parse_generation_per_type_document the series is that of the
\* category of the TimeSeries).
DocumentKinds == {"price", "generation_per_type", "total_load"}

\* The elements a Period may lack.
RequiredElements == {"resolution", "start", "end"}

\* round_digits of the process_* calls of a parser.
RoundDigitsOf(kind) == IF kind = "price" THEN "2" ELSE NoRounding

\* The arguments of the process_* call for a period of a document.
PeriodOf(kind, p) ==
    [resolution |-> p.resolution, start |-> p.start, end |-> p.end,
     points |-> p.points, round_digits |-> RoundDigitsOf(kind),
     tie_up |-> FALSE]

\* The parser raised: period.find(...) is None and has no text.
DocumentRaised == [raised |-> TRUE, series |-> EmptySeries]

\* The loops over TimeSeries and Period of a parse_*_document, from
\* period i on.
RECURSIVE DocumentLoop(_, _, _, _)
DocumentLoop(kind, periods, i, series) ==
    IF i > Len(periods) THEN [raised |-> FALSE, series |-> series]
    ELSE LET p == periods[i]
         IN  IF p.missing = "resolution" THEN DocumentRaised
             ELSE IF _normalize_resolution(p.resolution) = "unsupported"
             THEN DocumentLoop(kind, periods, i + 1, series)
             ELSE IF p.missing \in {"start", "end"} THEN DocumentRaised
             ELSE IF kind = "price"
             THEN IF p.start \in DOMAIN series
                  THEN DocumentLoop(kind, periods, i + 1, series)
                  ELSE DocumentLoop(kind, periods, i + 1,
                         _fill_missing_hours(
                             Update(series, ProcessPoints(PeriodOf(kind, p))),
                             p.start, p.end))
             ELSE DocumentLoop(kind, periods, i + 1,
                    AddScalar(series,
                        _fill_missing_hours(ProcessPoints(PeriodOf(kind, p)),
                                            p.start, p.end)))

\* parse_*_document(document)
parse_document(kind, periods) == DocumentLoop(kind, periods, 1, EmptySeries)

\* The periods of the documents parsed: of two hours, with the same value
\* at each position present, some lacking a required element.
DocumentPeriods ==
    { [missing |-> missing, resolution |-> r, start |-> start,
       end |-> start + 2 * HOUR, points |-> [pos \in P |-> v]] :
        missing \in RequiredElements \cup {"none"},
        r \in {"PT60M", "PT15M", "PT30M"},
        start \in {0, 1 * HOUR},
        P \in SUBSET {1, 2},
        v \in {28, 40} }

\* A parse_*_document call has received a document.
DocumentCalled ==
    /\ period = NoPeriod
    /\ parse_result = NoParse
    /\ documents = NoDocuments
    /\ merged = NoMerge
    /\ xml_document \in [kind : DocumentKinds,
                          periods : [1..MaxPeriods -> DocumentPeriods],
                          done : {FALSE}, raised : {FALSE},
                          series : {EmptySeries}]

\* The parser goes through the document.
ParseDocument ==
    /\ xml_document # NoDocument
    /\ ~xml_document.done
    /\ xml_document' =
          [xml_document EXCEPT
              !.done = TRUE,
              !.raised = parse_document(xml_document.kind,
                                        xml_document.periods).raised,
              !.series = parse_document(xml_document.kind,
                                        xml_document.periods).series]
    /\ UNCHANGED << coordVars, clientVars, period, parse_result, documents,
                    merged, sessionVars, hostVars >>

(***************************************************************************)
(* _async_update_data of the four coordinators                             *)
(***************************************************************************)

\* A refresh that returns nothing and changes nothing; the results below
\* are written as changes to it.
Unchanged ==
    [outcome |-> "returned", exc |-> "none", status |-> 0,
     value |-> EmptySeries, from_cache |-> FALSE, queries |-> << >>,
     lsu |-> last_successful_update, cats |-> _available_categories,
     te |-> _last_total_europe, counts |-> _area_missing_counts,
     until |-> _area_suppressed_until,
     last_suppressed |-> _area_last_suppressed, area_data |-> _area_data,
     logged |-> _all_suppressed_logged,
     ran_aggregate |-> FALSE, aggregate |-> EmptySeries,
     missing_areas |-> {}, zero_only_areas |-> {},
     suppressed_this_run |-> << >>, recovered_this_run |-> << >>]

Returns(r, value) == [r EXCEPT !.outcome = "returned", !.value = value]
Raises(r, exc, status) ==
    [r EXCEPT !.outcome = "raised", !.exc = exc, !.status = status]

UNAUTHORIZED == "UpdateFailed: Unauthorized"
FAILED == "UpdateFailed: Failed to retrieve"

\* A variant of the short-circuit that counts as a successful update.
FromCache_advancing ==
    [Returns(Unchanged, _copy_data(data)) EXCEPT !.from_cache = TRUE,
                                                 !.lsu = now]

\* "cached = self._cached_data_if_sufficient(start, end); return cached"
FromCache == [Returns(Unchanged, _copy_data(data)) EXCEPT !.from_cache = TRUE]

\* The single-area query as the log of the refresh records it.
Logged(key, out) == [key |-> key, code |-> AreaCode(key), out |-> out]

\* The aggregate branch of the try block: the per-area loop (q) followed by
\* _handle_total_europe_issues (h).  fallback: the refresh returns at once.
AggregateResult(q, h) ==
    [fallback |-> ~h.is_none,
     response |-> q.aggregate,
     r |-> [Unchanged EXCEPT
               !.value = h.value,
               !.queries = q.queries, !.te = h.te, !.counts = q.counts,
               !.until = q.until, !.last_suppressed = q.last_suppressed,
               !.area_data = q.area_data, !.logged = q.logged,
               !.ran_aggregate = TRUE, !.aggregate = q.aggregate,
               !.missing_areas = q.missing_areas,
               !.zero_only_areas = q.zero_only_areas,
               !.suppressed_this_run = q.suppressed_this_run,
               !.recovered_this_run = q.recovered_this_run]]

\* A variant of the call that never reports fresh data.
AggregateHandled_never_fresh(q) ==
    AggregateResult(q,
        _handle_total_europe_issues(_last_total_europe, data,
            q.missing_areas, q.zero_only_areas, FALSE))

AggregateHandled(q) ==
    AggregateResult(q,
        _handle_total_europe_issues(_last_total_europe, data,
            q.missing_areas, q.zero_only_areas, Truthy(q.aggregate)))

AggregateBranch(answers) ==
    AggregateHandled(
        _query_total_europe(cfg, _area_missing_counts,
            _area_suppressed_until, _area_last_suppressed, _area_data,
            _all_suppressed_logged, answers, now))

\* "except requests_exceptions.RequestException": cached values if there are
\* any, UpdateFailed otherwise.
NetworkFallback(r) ==
    IF Truthy(data) THEN Returns(r, _copy_data(data))
    ELSE Raises(r, FAILED, 0)

\* normalized[timestamp]: the categories with total_generation added.
TOTAL_KEY == "total_generation"

RECURSIVE SumOver(_, _)
SumOver(f, S) ==
    IF S = {} THEN 0
    ELSE LET k == CHOOSE x \in S : TRUE IN f[k] + SumOver(f, S \ {k})

\* A variant of Normalize that adds no total.
Normalize_without_total(values) == values

Normalize(values) ==
    [k \in DOMAIN values \cup {TOTAL_KEY} |->
        IF k = TOTAL_KEY THEN SumOver(values, DOMAIN values) ELSE values[k]]

CategoriesOf(series) == UNION {DOMAIN series[t] : t \in DOMAIN series}

\* A variant of the tail that leaves the categories alone on an empty
\* response.
GenerationTail_keeping_categories(r, response) ==
    IF ~Truthy(response)
    THEN Returns(r, EmptySeries)
    ELSE LET normalized == [t \in DOMAIN response |-> Normalize(response[t])]
         IN  Returns([r EXCEPT !.cats = CategoriesOf(normalized),
                               !.lsu = now], normalized)

\* The tail of the generation coordinator's refresh.
GenerationTail(r, response) ==
    IF ~Truthy(response)
    THEN Returns([r EXCEPT !.cats = {}], EmptySeries)
    ELSE LET normalized == [t \in DOMAIN response |-> Normalize(response[t])]
         IN  Returns([r EXCEPT !.cats = CategoriesOf(normalized),
                               !.lsu = now], normalized)

GenerationAggregate(a) ==
    IF a.fallback THEN a.r ELSE GenerationTail(a.r, a.response)

\* EntsoeGenerationCoordinator._async_update_data
GenerationUpdate(env) ==
    LET start == now - 1 * DAY
        end == start + 3 * DAY
    IN  IF CacheSufficient(data, start, end) THEN FromCache
        ELSE IF IsAggregate(cfg)
        THEN GenerationAggregate(AggregateBranch(env.areas))
        ELSE LET out == env.full
                 r == [Unchanged EXCEPT !.queries =
                          << Logged(cfg.area_key, out) >>]
             IN  IF IsHTTPError(out)
                 THEN IF out.status = 401 THEN Raises(r, UNAUTHORIZED, 401)
                      ELSE Raises(r, "HTTPError", out.status)
                 ELSE IF IsRequestException(out) THEN NetworkFallback(r)
                 ELSE GenerationTail(r, out.value)

\* The tail of the load coordinator's refresh.
LoadTail(r, response) ==
    IF Truthy(response) THEN Returns([r EXCEPT !.lsu = now], response)
    ELSE Returns(r, EmptySeries)

LoadAggregate(a) ==
    IF a.fallback THEN a.r ELSE LoadTail(a.r, a.response)

\* EntsoeLoadCoordinator._async_update_data
LoadUpdate(env) ==
    LET start == now - 1 * DAY
        end == start + look_ahead(cfg)
    IN  IF CacheSufficient(data, start, end) THEN FromCache
        ELSE IF IsAggregate(cfg)
        THEN LoadAggregate(AggregateBranch(env.areas))
        ELSE LET out == env.full
                 r == [Unchanged EXCEPT !.queries =
                          << Logged(cfg.area_key, out) >>]
             IN  IF IsHTTPError(out)
                 THEN IF out.status = 401 THEN Raises(r, UNAUTHORIZED, 401)
                      ELSE IF out.status = 400 THEN Returns(r, EmptySeries)
                      ELSE Raises(r, "HTTPError", out.status)
                 ELSE IF IsRequestException(out) THEN NetworkFallback(r)
                 ELSE LoadTail(r, out.value)

\* The tail of the wind and solar coordinator's refresh.
WindSolarTail(r, response) ==
    IF ~Truthy(response)
    THEN Returns([r EXCEPT !.cats = {}], EmptySeries)
    ELSE Returns([r EXCEPT !.cats = CategoriesOf(response), !.lsu = now],
                 [t \in DOMAIN response |-> response[t]])

WindSolarAggregate(a) ==
    IF a.fallback THEN a.r ELSE WindSolarTail(a.r, a.response)

\* EntsoeWindSolarForecastCoordinator._async_update_data
WindSolarUpdate(env) ==
    LET start == now - 1 * DAY
        end == start + 3 * DAY
    IN  IF CacheSufficient(data, start, end) THEN FromCache
        ELSE IF IsAggregate(cfg)
        THEN WindSolarAggregate(AggregateBranch(env.areas))
        ELSE LET out == env.full
                 r == [Unchanged EXCEPT !.queries =
                          << Logged(cfg.area_key, out) >>]
             IN  IF IsHTTPError(out)
                 THEN IF out.status = 401 THEN Raises(r, UNAUTHORIZED, 401)
                      ELSE Raises(r, "HTTPError", out.status)
                 ELSE IF IsRequestException(out) THEN NetworkFallback(r)
                 ELSE WindSolarTail(r, out.value)

\* A query of the generation forecast coordinator, with its window.
LoggedWindow(key, out, start, end) ==
    [key |-> key, code |-> AreaCode(key), out |-> out,
     start |-> start, end |-> end]

Min(a, b) == IF a <= b THEN a ELSE b

\* A variant of the loop body that leaves the loop on a timeout as on any
\* other request exception.
ChunkAnswer_stopping_on_timeout(acc, chunk_end, out) ==
    LET asked == [acc EXCEPT
                     !.queries = Append(@, LoggedWindow(cfg.area_key, out,
                                                        acc.cursor, chunk_end)),
                     !.cursor = chunk_end]
    IN  IF IsRequestException(out)
        THEN [asked EXCEPT !.last_error = out, !.stopped = TRUE,
                           !.cursor = acc.cursor]
        ELSE IF Truthy(out.value)
        THEN [asked EXCEPT !.had_success = TRUE,
                           !.aggregate = AddScalar(@, out.value)]
        ELSE asked

\* One chunk query of _fetch_generation_forecast_in_chunks and what the loop
\* body does with what comes back (stopped: the loop was left by break).
ChunkAnswer(acc, chunk_end, out) ==
    LET asked == [acc EXCEPT
                     !.queries = Append(@, LoggedWindow(cfg.area_key, out,
                                                        acc.cursor, chunk_end)),
                     !.cursor = chunk_end]
    IN  IF IsTimeoutError(out) THEN [asked EXCEPT !.last_error = out]
        ELSE IF IsRequestException(out)
        THEN [asked EXCEPT !.last_error = out, !.stopped = TRUE,
                           !.cursor = acc.cursor]
        ELSE IF Truthy(out.value)
        THEN [asked EXCEPT !.had_success = TRUE,
                           !.aggregate = AddScalar(@, out.value)]
        ELSE asked

\* The while loop; answers[i] is what the query for the i-th chunk comes
\* back with.
RECURSIVE ChunkLoop(_, _, _)
ChunkLoop(end, acc, answers) ==
    IF acc.stopped \/ ~(acc.cursor < end) THEN acc
    ELSE ChunkLoop(end,
                   ChunkAnswer(acc, Min(acc.cursor + 1 * DAY, end),
                               answers[Len(acc.queries) + 1]),
                   answers)

ChunkResult(acc) ==
    IF ~acc.had_success /\ acc.last_error # NoQuery
    THEN [raised |-> TRUE, error |-> acc.last_error,
          value |-> EmptySeries, queries |-> acc.queries]
    ELSE [raised |-> FALSE, error |-> NoQuery,
          value |-> acc.aggregate, queries |-> acc.queries]

\* _fetch_generation_forecast_in_chunks(start, end), chunk_size one day.
_fetch_generation_forecast_in_chunks(start, end, answers) ==
    ChunkResult(
        ChunkLoop(end,
            [aggregate |-> EmptySeries, last_error |-> NoQuery,
             had_success |-> FALSE, queries |-> << >>,
             cursor |-> start, stopped |-> FALSE],
            answers))

\* The handler of REQUEST_TIMEOUT_ERRORS: f is what the chunked fetch did.
ChunkedRetry(r, f) ==
    IF f.raised THEN NetworkFallback([r EXCEPT !.queries = @ \o f.queries])
    ELSE Returns([r EXCEPT !.queries = @ \o f.queries, !.lsu = now], f.value)

\* What the generation forecast coordinator does with the answer out to its
\* query for the whole window.
ForecastAnswer(r, out, start, end, chunks) ==
    IF IsTimeoutError(out)
    THEN ChunkedRetry(r,
             _fetch_generation_forecast_in_chunks(start, end, chunks))
    ELSE IF IsHTTPError(out)
    THEN IF out.status = 401 THEN Raises(r, UNAUTHORIZED, 401)
         ELSE IF out.status = 400 THEN Returns(r, EmptySeries)
         ELSE Raises(r, "HTTPError", out.status)
    ELSE IF IsRequestException(out) THEN NetworkFallback(r)
    ELSE IF ~out.is_none THEN Returns([r EXCEPT !.lsu = now], out.value)
    ELSE Returns(r, EmptySeries)

\* EntsoeGenerationForecastCoordinator._async_update_data
GenerationForecastUpdate(env) ==
    IF CacheSufficient(data, now - 1 * DAY, now - 1 * DAY + 3 * DAY)
    THEN FromCache
    ELSE ForecastAnswer(
             [Unchanged EXCEPT !.queries =
                 << LoggedWindow(cfg.area_key, env.full, now - 1 * DAY,
                                 now - 1 * DAY + 3 * DAY) >>],
             env.full, now - 1 * DAY, now - 1 * DAY + 3 * DAY, env.chunks)

(***************************************************************************)
(* The coordinator as a state machine                                      *)
(***************************************************************************)

ConstituentCodes == AreaCodes \ {AreaCode(TOTAL_EUROPE_AREA)}

NoAreas == [code \in ConstituentCodes |-> NoQuery]
NoChunks == << >>

\* Number of one-day chunks of the generation forecast window.
ChunkCount == 3

\* What the queries of one chunked fetch can come back with.
ChunkOutcomes ==
    { Query(r, s) :
        r \in { x \in RequestResults :
                  x.status \in {200, 401} \/ x.exc = "Timeout" },
        s \in {(0 :> 1), EmptySeries} }

\* What the query for one constituent area can come back with: a series, an
\* empty result, or a request exception (the loop treats them all alike).
AreaOutcomes(c) ==
    { Query(r, s) :
        r \in { x \in RequestResults : x.status \in {200, 401} },
        s \in PublishedSeries(c) }

\* What the platform answers to the queries of one refresh.
Environments ==
    IF IsAggregate(cfg)
    THEN { [full |-> NoQuery, areas |-> a, chunks |-> NoChunks] :
             a \in [ConstituentCodes -> AreaOutcomes(cfg)] }
    ELSE IF cfg.kind = "generation_forecast"
    THEN { [full |-> o, areas |-> NoAreas, chunks |-> NoChunks] :
             o \in {x \in QueryOutcomes(cfg) : ~IsTimeoutError(x)} }
         \cup
         { [full |-> o, areas |-> NoAreas, chunks |-> ch] :
             o \in {x \in QueryOutcomes(cfg) : IsTimeoutError(x)},
             ch \in [1..ChunkCount -> ChunkOutcomes] }
    ELSE { [full |-> o, areas |-> NoAreas, chunks |-> NoChunks] :
             o \in QueryOutcomes(cfg) }

NoRefresh == [Unchanged EXCEPT !.outcome = "none"]

\* What last holds while no refresh has run at the current time.
NoneYet ==
    [outcome |-> "none", exc |-> "none", status |-> 0,
     value |-> EmptySeries, from_cache |-> FALSE,
     queries |-> << >>, ran_aggregate |-> FALSE,
     aggregate |-> EmptySeries, missing_areas |-> {},
     zero_only_areas |-> {}, suppressed_this_run |-> << >>,
     recovered_this_run |-> << >>,
     cached |-> EmptySeries,
     counts_before |-> [k \in _area_keys |-> 0],
     until_before |-> [k \in _area_keys |-> None],
     last_suppressed_before |-> [k \in _area_keys |-> None]]

CoordInit(c) ==
    /\ cfg = c
    /\ now = 0
    /\ data = EmptySeries
    /\ last_successful_update = None
    /\ _area_missing_counts = [k \in _area_keys |-> 0]
    /\ _area_suppressed_until = [k \in _area_keys |-> None]
    /\ _area_last_suppressed = [k \in _area_keys |-> None]
    /\ _area_data = << >>
    /\ _available_categories = {}
    /\ _last_total_europe = [missing |-> {}, zero |-> {},
                             fallback |-> FALSE, no_data |-> FALSE]
    /\ _all_suppressed_logged = FALSE
    /\ last = NoneYet

\* A sensor may read the same value MaxReads times in a row.
MaxReads == 2

NoReading == [kind |-> "none", category |-> "none", ref |-> 0, calls |-> 0,
              result |-> NoValue]

\* self.data[timestamp] of a scalar series, None without a timestamp or
\* without data.
ScalarAt(d, selected) ==
    IF ~selected.found \/ ~Truthy(d) THEN NoValue
    ELSE Known(d[selected.timestamp])

\* self.data.get(timestamp, {}).get(category) of a series with categories.
CategoryAt(d, selected, category) ==
    IF ~selected.found \/ ~Truthy(d) THEN NoValue
    ELSE IF selected.timestamp \in DOMAIN d
            /\ category \in DOMAIN d[selected.timestamp]
    THEN Known(d[selected.timestamp][category])
    ELSE NoValue

\* The values of a scalar series as a bag's sum and size: average_value
\* is their quotient.
SeriesSum(d) == SumOver(d, DOMAIN d)

\* The accessors of the load coordinator: current_value, next_value,
\* min_value, max_value, average_value and timeline (whose keys are the
\* timestamps, written in ISO 8601).
LoadAccessors == {"current", "next", "min", "max", "average", "timeline"}

LoadRead(accessor, d, ref) ==
    IF accessor = "current"
    THEN ScalarAt(d, _select_current_timestamp(d, ref))
    ELSE IF accessor = "next"
    THEN ScalarAt(d, _select_next_timestamp(d, ref))
    ELSE IF accessor = "timeline" THEN Known(d)
    ELSE IF ~Truthy(d) THEN NoValue
    ELSE IF accessor = "min" THEN Known(SetMin({d[t] : t \in DOMAIN d}))
    ELSE IF accessor = "max" THEN Known(SetMax({d[t] : t \in DOMAIN d}))
    ELSE Known([sum |-> SeriesSum(d), len |-> Cardinality(DOMAIN d)])

\* The accessors of the generation coordinator: current_value, next_value
\* and timeline of a category.
GenerationAccessors == {"current", "next", "timeline"}

GenerationRead(accessor, d, ref, category) ==
    IF accessor = "current"
    THEN CategoryAt(d, _select_current_timestamp(d, ref), category)
    ELSE IF accessor = "next"
    THEN CategoryAt(d, _select_next_timestamp(d, ref), category)
    ELSE Known([t \in {u \in DOMAIN d : category \in DOMAIN d[u]} |->
                   d[t][category]])

\* A variant in which reading the current value drops the point read.
DataAfterRead_dropping_current(accessor, ref) ==
    IF accessor = "current" /\ _select_current_timestamp(data, ref).found
    THEN [t \in DOMAIN data
                 \ {_select_current_timestamp(data, ref).timestamp} |->
             data[t]]
    ELSE data

\* The series after an accessor has run: the accessors only read self.data.
DataAfterRead(accessor, ref) == data

\* The reference times a sensor reads at: now, and a time before the
\* window asked for.
ReadReferences == {now, (0 - 1 * DAY) - 1 * HOUR}

ReadCategories(c) == IF HasCategories(c) THEN {"solar", "total_generation"}
                     ELSE {"none"}

\* A sensor calls an accessor of the running coordinator.
Read ==
    \E accessor \in (IF HasCategories(cfg) THEN GenerationAccessors
                      ELSE LoadAccessors),
       ref \in ReadReferences, category \in ReadCategories(cfg) :
        /\ (accessor \notin {"current", "next"}) => ref = now
        /\ LET again == /\ reading.kind = accessor
                        /\ reading.ref = ref
                        /\ reading.category = category
           IN  /\ again => reading.calls < MaxReads
               /\ reading' =
                     [kind |-> accessor, category |-> category, ref |-> ref,
                      calls |-> IF again THEN reading.calls + 1 ELSE 1,
                      result |-> IF HasCategories(cfg)
                                 THEN GenerationRead(accessor, data, ref,
                                                     category)
                                 ELSE LoadRead(accessor, data, ref)]
        /\ data' = DataAfterRead(accessor, ref)
        /\ UNCHANGED << cfg, now, last_successful_update,
                        _area_missing_counts, _area_suppressed_until,
                        _area_last_suppressed, _area_data,
                        _available_categories, _last_total_europe,
                        _all_suppressed_logged, last, clientVars, parseVars,
                        sessionVars, others, setup, lookup, sensor >>

\* The state a coordinator keeps in its own instance.
Running ==
    [cfg |-> cfg, data |-> data,
     last_successful_update |-> last_successful_update,
     _area_missing_counts |-> _area_missing_counts,
     _area_suppressed_until |-> _area_suppressed_until,
     _area_last_suppressed |-> _area_last_suppressed,
     _area_data |-> _area_data,
     _available_categories |-> _available_categories,
     _last_total_europe |-> _last_total_europe,
     _all_suppressed_logged |-> _all_suppressed_logged]

\* The instance state of a coordinator just built for configuration c.
Built(c) ==
    [cfg |-> c, data |-> EmptySeries, last_successful_update |-> None,
     _area_missing_counts |-> [k \in _area_keys |-> 0],
     _area_suppressed_until |-> [k \in _area_keys |-> None],
     _area_last_suppressed |-> [k \in _area_keys |-> None],
     _area_data |-> << >>, _available_categories |-> {},
     _last_total_europe |-> [missing |-> {}, zero |-> {},
                             fallback |-> FALSE, no_data |-> FALSE],
     _all_suppressed_logged |-> FALSE]

(***************************************************************************)
(* Generation sensor (sensor.py)                                           *)
(***************************************************************************)

\* No sensor on the coordinator.
NoSensor ==
    [category |-> "none", _last_update_success |-> TRUE,
     native_value |-> NoValue, updated |-> FALSE,
     last_update_success |-> TRUE]

\* EntsoeGenerationSensor.__init__ for the description of a category.
NewSensor(category) == [NoSensor EXCEPT !.category = category]

\* A variant that keeps the value the sensor has.
HandleUpdate_keeping_value(category) == sensor.native_value

\* EntsoeGenerationSensor._async_handle_coordinator_update: the native
\* value it leaves.
HandleUpdate(category) ==
    IF ~Truthy(data)
    THEN IF last_successful_update # None THEN sensor.native_value
         ELSE NoValue
    ELSE GenerationRead("current", data, now, category)

\* _HourlyCoordinatorSensor.async_update: the handler raises nothing for
\* a description with a value function.
async_update ==
    [sensor EXCEPT !.native_value = HandleUpdate(sensor.category),
                   !._last_update_success = TRUE,
                   !.updated = TRUE]

\* The sensor's available property.
SensorAvailable ==
    available(sensor._last_update_success, sensor.last_update_success,
              is_data_stale(cfg, data, last_successful_update, now))

\* The sensor after a refresh of its coordinator that ends as r: the
\* host's coordinator records whether the update returned.
SensorAfter(r) ==
    IF sensor.category = "none" THEN sensor
    ELSE [sensor EXCEPT !.last_update_success = (r.outcome = "returned"),
                        !.updated = FALSE]

\* The sensor refreshes its state.
SensorUpdate ==
    /\ sensor.category # "none"
    /\ ~sensor.updated
    /\ sensor' = async_update
    /\ UNCHANGED << coordVars, clientVars, parseVars, sessionVars, others,
                    reading, setup, lookup >>

\* The hours the sensor is followed over.
SensorHours == 0..(MaxTime + 2)

\* A series with a point for every hour the sensor is followed over.
HourlySeries(categories) ==
    [t \in {WindowStart} \cup SensorHours |-> [cat \in categories |-> 1]]

\* What the platform answers to the refreshes of the sensor's coordinator.
SensorEnvironments ==
    { [full |-> Query(r, s), areas |-> NoAreas, chunks |-> NoChunks] :
        r \in { x \in RequestResults :
                  x.status \in {200, 400} \/ x.exc = "ConnectionError" },
        s \in { HourlySeries({"solar", "wind_onshore"}),
                HourlySeries({"wind_onshore"}), EmptySeries } }

\* An hour passes.
SensorTick ==
    /\ now + 1 * HOUR \in SensorHours
    /\ now' = now + 1 * HOUR
    /\ last' = NoneYet
    /\ sensor' = [sensor EXCEPT !.updated = FALSE]
    /\ UNCHANGED << cfg, data, last_successful_update, _area_missing_counts,
                    _area_suppressed_until, _area_last_suppressed, _area_data,
                    _available_categories, _last_total_europe,
                    _all_suppressed_logged, clientVars, parseVars,
                    sessionVars, others, reading, setup, lookup >>

\* A variant in which the miss counters are one dictionary of the class.
OthersAfter_sharing_counts(r) ==
    [k \in DOMAIN others |->
        [others[k] EXCEPT !._area_missing_counts = r.counts]]

\* What a refresh that ends as r leaves of the other coordinators: each
\* coordinator builds its own client, counters, deadlines and series in
\* __init__, and a refresh writes to self only.
OthersAfter(r) == others

\* The host's refresh around _async_update_data: data is replaced by what
\* the update returns and left alone when it raises.
Apply(r) ==
    /\ data' = IF r.outcome = "returned" THEN r.value ELSE data
    /\ last_successful_update' = r.lsu
    /\ _available_categories' = r.cats
    /\ _last_total_europe' = r.te
    /\ _area_missing_counts' = r.counts
    /\ _area_suppressed_until' = r.until
    /\ _area_last_suppressed' = r.last_suppressed
    /\ _area_data' = r.area_data
    /\ _all_suppressed_logged' = r.logged
    /\ last' = [outcome |-> r.outcome, exc |-> r.exc, status |-> r.status,
                value |-> r.value, from_cache |-> r.from_cache,
                queries |-> r.queries, ran_aggregate |-> r.ran_aggregate,
                aggregate |-> r.aggregate,
                missing_areas |-> r.missing_areas,
                zero_only_areas |-> r.zero_only_areas,
                suppressed_this_run |-> r.suppressed_this_run,
                recovered_this_run |-> r.recovered_this_run,
                cached |-> data,
                counts_before |-> _area_missing_counts,
                until_before |-> _area_suppressed_until,
                last_suppressed_before |-> _area_last_suppressed]
    /\ others' = OthersAfter(r)
    /\ reading' = NoReading
    /\ sensor' = SensorAfter(r)
    /\ UNCHANGED << cfg, now, br_responses, br_result, parseVars,
                    sessionVars, setup, lookup >>

\* The host turns from the running coordinator to another one of the
\* entry.
Switch ==
    \E k \in DOMAIN others :
        /\ cfg' = others[k].cfg
        /\ data' = others[k].data
        /\ last_successful_update' = others[k].last_successful_update
        /\ _area_missing_counts' = others[k]._area_missing_counts
        /\ _area_suppressed_until' = others[k]._area_suppressed_until
        /\ _area_last_suppressed' = others[k]._area_last_suppressed
        /\ _area_data' = others[k]._area_data
        /\ _available_categories' = others[k]._available_categories
        /\ _last_total_europe' = others[k]._last_total_europe
        /\ _all_suppressed_logged' = others[k]._all_suppressed_logged
        /\ others' = [others EXCEPT ![k] = Running]
        /\ last' = NoneYet
        /\ reading' = NoReading
        /\ UNCHANGED << now, clientVars, parseVars, sessionVars, setup,
                        lookup, sensor >>

RefreshGeneration ==
    /\ cfg.kind = "generation"
    /\ \E env \in Environments :
          \E r \in {GenerationUpdate(env)} : Apply(r)

RefreshLoad ==
    /\ cfg.kind = "load"
    /\ \E env \in Environments :
          \E r \in {LoadUpdate(env)} : Apply(r)

RefreshGenerationForecast ==
    /\ cfg.kind = "generation_forecast"
    /\ \E env \in Environments :
          \E r \in {GenerationForecastUpdate(env)} : Apply(r)

\* What the platform answers to a refresh of the generation forecast whose
\* query for the whole window ends in a timeout, raised as Timeout or as a
\* RequestException of no subclass.
TimeoutEnvironments ==
    { [full |-> Query([raised |-> TRUE, exc |-> e, status |-> 0], EmptySeries),
       areas |-> NoAreas, chunks |-> ch] :
        e \in {"Timeout", PLAIN_TIMEOUT},
        ch \in [1..ChunkCount -> ChunkOutcomes] }

RefreshForecastTimedOut ==
    /\ cfg.kind = "generation_forecast"
    /\ \E env \in TimeoutEnvironments :
          \E r \in {GenerationForecastUpdate(env)} : Apply(r)

RefreshSensorCoordinator ==
    /\ cfg.kind = "generation"
    /\ \E env \in SensorEnvironments :
          \E r \in {GenerationUpdate(env)} : Apply(r)

RefreshWindSolar ==
    /\ cfg.kind = "wind_solar_forecast"
    /\ \E env \in Environments :
          \E r \in {WindSolarUpdate(env)} : Apply(r)

\* The clock moves on hour by hour, and at last by the coordinator's
\* suppression duration.
Tick ==
    /\ \/ now < MaxTime /\ now' = now + 1 * HOUR
       \/ now = MaxTime /\ now' = now + _suppression_duration(cfg)
    /\ last' = NoneYet
    /\ UNCHANGED << cfg, data, last_successful_update, _area_missing_counts,
                    _area_suppressed_until, _area_last_suppressed, _area_data,
                    _available_categories, _last_total_europe,
                    _all_suppressed_logged, br_responses, br_result,
                    parseVars, sessionVars, hostVars >>

(***************************************************************************)
(* async_setup_entry (__init__.py)                                         *)
(***************************************************************************)

\* Keys of the coordinators async_setup_entry can create, in the order of
\* its code.
SETUP_TARGETS == << "generation", "generation_forecast", "generation_europe",
                   "load" >>

SetupKeys == {SETUP_TARGETS[i] : i \in DOMAIN SETUP_TARGETS}

IsEnabled(enabled, key) == key \in enabled

\* data and refresh_tasks after the creation code: one entry for each
\* enabled option.
Created(enabled) == SelectSeq(SETUP_TARGETS, LAMBDA key : IsEnabled(enabled, key))

\* A variant of gather that returns without waiting for its tasks.
gather_returns_at_once(tasks, finished) == TRUE

\* asyncio.gather(*tasks) returns once every task has finished.
gather_returns(tasks, finished) ==
    \A i \in DOMAIN tasks : tasks[i] \in finished

NoSetup ==
    [pc |-> "idle", enabled |-> {}, raising |-> {}, data |-> << >>,
     refresh_tasks |-> << >>, runs |-> [key \in SetupKeys |-> 0],
     finished |-> {}, forwarded |-> FALSE, result |-> "none"]

\* async_setup_entry is called for an entry with some options enabled;
\* the first refresh of some of the coordinators is going to raise.
SetupCalled ==
    \E enabled \in SUBSET SetupKeys :
        \E raising \in SUBSET enabled :
            setup = [NoSetup EXCEPT !.pc = "called", !.enabled = enabled,
                                    !.raising = raising]

SetupUnchanged ==
    UNCHANGED << coordVars, clientVars, parseVars, sessionVars, others,
                 reading, lookup, sensor >>

\* The code up to the first await: the coordinators are created and the
\* coroutine of each first refresh is appended to refresh_tasks.
CreateCoordinators ==
    /\ setup.pc = "called"
    /\ setup' = [setup EXCEPT
                    !.data = Created(setup.enabled),
                    !.refresh_tasks = Created(setup.enabled),
                    !.pc = IF Created(setup.enabled) # << >>
                           THEN "gather" ELSE "forward"]
    /\ SetupUnchanged

\* One of the gathered first refreshes runs; the tasks of a gather that
\* has raised are not cancelled.
FirstRefresh ==
    /\ setup.pc \in {"gather", "failed"}
    /\ \E i \in DOMAIN setup.refresh_tasks :
          LET key == setup.refresh_tasks[i]
          IN  /\ key \notin setup.finished
              /\ setup' = [setup EXCEPT
                              !.runs[key] = @ + 1,
                              !.finished = @ \cup {key}]
    /\ SetupUnchanged

\* await asyncio.gather(*refresh_tasks) returns.
GatherReturns ==
    /\ setup.pc = "gather"
    /\ gather_returns(setup.refresh_tasks, setup.finished)
    /\ setup.finished \cap setup.raising = {}
    /\ setup' = [setup EXCEPT !.pc = "forward"]
    /\ SetupUnchanged

\* await asyncio.gather(*refresh_tasks) raises the exception of a first
\* refresh, which leaves async_setup_entry.
GatherRaises ==
    /\ setup.pc = "gather"
    /\ setup.finished \cap setup.raising # {}
    /\ setup' = [setup EXCEPT !.pc = "failed", !.result = "raised"]
    /\ SetupUnchanged

\* async_forward_entry_setups(entry, PLATFORMS), then return True.
ForwardEntrySetups ==
    /\ setup.pc = "forward"
    /\ setup' = [setup EXCEPT !.pc = "done", !.forwarded = TRUE,
                              !.result = "true"]
    /\ SetupUnchanged


HostInit ==
    /\ others = << >>
    /\ reading = NoReading
    /\ setup = NoSetup
    /\ lookup = NoLookup
    /\ sensor = NoSensor

Init ==
    /\ \E c \in Configs : CoordInit(c)
    /\ ClientInit
    /\ ParseInit
    /\ HostInit

Next ==
    \/ Tick
    \/ RefreshGeneration
    \/ RefreshLoad
    \/ RefreshGenerationForecast
    \/ RefreshWindSolar

Spec == Init /\ [][Next]_vars

\* The generation forecast coordinator under timeouts.
InitForecast ==
    /\ CoordInit(CHOOSE c \in Configs : c.kind = "generation_forecast")
    /\ ClientInit
    /\ ParseInit
    /\ HostInit

NextForecast ==
    \/ Tick
    \/ RefreshForecastTimedOut

SpecForecast == InitForecast /\ [][NextForecast]_vars

\* A generation sensor on the coordinator of one area.
InitSensor ==
    /\ CoordInit([kind |-> "generation", area_key |-> "BE",
                  horizon |-> LOAD_FORECAST_HORIZON_DAY_AHEAD])
    /\ ClientInit
    /\ ParseInit
    /\ others = << >>
    /\ reading = NoReading
    /\ setup = NoSetup
    /\ lookup = NoLookup
    /\ sensor \in {NewSensor(category) : category \in {"solar", TOTAL_KEY}}

NextSensor ==
    \/ SensorTick
    \/ RefreshSensorCoordinator
    \/ SensorUpdate

SpecSensor == InitSensor /\ [][NextSensor]_vars

\* The transport client on its own.
InitClient ==
    /\ CoordInit(CHOOSE c \in Configs : c.kind = "generation_forecast")
    /\ ClientInit
    /\ ParseInit
    /\ HostInit

NextClient ==
    \/ BaseRequest
    \/ ClockTick

SpecClient == InitClient /\ [][NextClient]_vars

\* Two coordinators of one entry, refreshed in any order.
TargetConfigs ==
    << [kind |-> "generation", area_key |-> TOTAL_EUROPE_AREA,
        horizon |-> LOAD_FORECAST_HORIZON_DAY_AHEAD],
       [kind |-> "load", area_key |-> TOTAL_EUROPE_AREA,
        horizon |-> LOAD_FORECAST_HORIZON_MONTH_AHEAD] >>

InitTargets ==
    /\ CoordInit(TargetConfigs[1])
    /\ ClientInit
    /\ ParseInit
    /\ others = << Built(TargetConfigs[2]) >>
    /\ reading = NoReading
    /\ setup = NoSetup
    /\ lookup = NoLookup
    /\ sensor = NoSensor

NextTargets ==
    \/ RefreshGeneration
    \/ RefreshLoad
    \/ Switch

SpecTargets == InitTargets /\ [][NextTargets]_vars

\* One of these coordinators, refreshed and read by its sensors.
InitRead ==
    /\ \E i \in DOMAIN TargetConfigs : CoordInit(TargetConfigs[i])
    /\ ClientInit
    /\ ParseInit
    /\ HostInit

NextRead ==
    \/ RefreshGeneration
    \/ RefreshLoad
    \/ Read

SpecRead == InitRead /\ [][NextRead]_vars

\* async_setup_entry on its own.
InitSetup ==
    /\ CoordInit(TargetConfigs[1])
    /\ ClientInit
    /\ ParseInit
    /\ others = << >>
    /\ reading = NoReading
    /\ lookup = NoLookup
    /\ sensor = NoSensor
    /\ SetupCalled

NextSetup ==
    \/ CreateCoordinators
    \/ FirstRefresh
    \/ GatherReturns
    \/ GatherRaises
    \/ ForwardEntrySetups

SpecSetup == InitSetup /\ [][NextSetup]_vars

\* The area enumeration on its own.
InitArea ==
    /\ CoordInit(TargetConfigs[1])
    /\ ClientInit
    /\ ParseInit
    /\ others = << >>
    /\ reading = NoReading
    /\ setup = NoSetup
    /\ sensor = NoSensor
    /\ LookupCalled

NextArea == Lookup

SpecArea == InitArea /\ [][NextArea]_vars

\* _base_request on the retrying session, once.
InitRetry ==
    /\ CoordInit(CHOOSE c \in Configs : c.kind = "generation_forecast")
    /\ RetryCalled
    /\ ParseInit
    /\ HostInit

NextRetry == BaseRequestRetrying

SpecRetry == InitRetry /\ [][NextRetry]_vars

\* The parser and the merge step on their own.
NextParse ==
    \/ Parse
    \/ Merge

InitParse ==
    /\ CoordInit(CHOOSE c \in Configs : c.kind = "generation_forecast")
    /\ ClientInit
    /\ HostInit
    /\ \/ ParseCalled
       \/ MergeCalled

SpecParse == InitParse /\ [][NextParse]_vars

\* A parser on a whole document.
InitDocument ==
    /\ CoordInit(CHOOSE c \in Configs : c.kind = "generation_forecast")
    /\ ClientInit
    /\ HostInit
    /\ DocumentCalled

NextDocument == ParseDocument

SpecDocument == InitDocument /\ [][NextDocument]_vars

(***************************************************************************)
(* Properties of the refresh                                               *)
(***************************************************************************)

Refreshed == last.outcome # "none"

\* The queries of the last refresh that came back with data.
Delivered ==
    { i \in DOMAIN last.queries :
        ~last.queries[i].out.raised /\ Truthy(last.queries[i].out.value) }

DeliveredSeries(i) == last.queries[i].out.value

DeliveredTimestamps == UNION { DOMAIN DeliveredSeries(i) : i \in Delivered }

DeliveredCategories(t) ==
    UNION { DOMAIN At(DeliveredSeries(i), t, << >>) : i \in Delivered }

RECURSIVE ScalarSum(_, _)
ScalarSum(I, t) ==
    IF I = {} THEN 0
    ELSE LET i == CHOOSE x \in I : TRUE
         IN  At(DeliveredSeries(i), t, 0) + ScalarSum(I \ {i}, t)

RECURSIVE CategorySum(_, _, _)
CategorySum(I, t, k) ==
    IF I = {} THEN 0
    ELSE LET i == CHOOSE x \in I : TRUE
         IN  At(At(DeliveredSeries(i), t, << >>), k, 0)
                + CategorySum(I \ {i}, t, k)

\* series holds, at each timestamp (and category) some area delivered, the
\* sum of what the areas delivered there, and holds nothing else (the
\* generation coordinator's total_generation left aside).
IsSumOfDelivered(series) ==
    /\ DOMAIN series = DeliveredTimestamps
    /\ \A t \in DeliveredTimestamps :
          IF HasCategories(cfg)
          THEN /\ DOMAIN series[t] \ {TOTAL_KEY} = DeliveredCategories(t)
               /\ \A k \in DeliveredCategories(t) :
                     series[t][k] = CategorySum(Delivered, t, k)
          ELSE series[t] = ScalarSum(Delivered, t)

\* C1: a refresh of the TOTAL_EUROPE target that is not served from the
\* cache returns, when at least one area came back with data, the
\* per-timestamp sum over exactly those areas, and when none did and the
\* cached series is not empty, a series equal to the cached one.
C1_FreshSumElseCache ==
    last.ran_aggregate =>
        /\ last.outcome = "returned"
        /\ Delivered # {} => IsSumOfDelivered(last.value)
        /\ Delivered = {} /\ Truthy(last.cached) => last.value = last.cached

\* C1 witness: areas are missing, one delivered, and the sum that is
\* returned is not the series that was cached.
C1_Witness ==
    /\ last.ran_aggregate
    /\ Delivered # {}
    /\ last.missing_areas # {}
    /\ Truthy(last.cached)
    /\ last.value # last.cached
    /\ IsSumOfDelivered(last.value)

\* A query that failed on the transport: connection failure, timeout, or
\* the server error left when every endpoint was tried.
TransportFailure(out) ==
    /\ out.raised
    /\ \/ out.exc \in {"ConnectionError", "Timeout"}
       \/ out.exc = "HTTPError" /\ out.status >= 500

SingleAreaRefresh == Refreshed /\ ~IsAggregate(cfg) /\ ~last.from_cache

\* C2: for a single-area target, a refresh whose queries all fail on the
\* transport returns the cached series when there is one, and raises
\* UpdateFailed when there is none.
C2_TransportFailureUsesCache ==
    ( /\ SingleAreaRefresh
      /\ \A i \in DOMAIN last.queries : TransportFailure(last.queries[i].out) )
    => IF Truthy(last.cached)
       THEN last.outcome = "returned" /\ last.value = last.cached
       ELSE last.outcome = "raised" /\ last.exc \in {FAILED, UNAUTHORIZED}

\* C3: is_data_stale() is true when no refresh has succeeded, true when
\* more than three update intervals have passed since the last success, and
\* false when the coordinator holds data and at most three have passed.
C3_Staleness ==
    LET stale == is_data_stale(cfg, data, last_successful_update, now)
        elapsed == now - last_successful_update
    IN  /\ last_successful_update = None => stale
        /\ last_successful_update # None
             /\ elapsed > 3 * update_interval(cfg) => stale
        /\ last_successful_update # None /\ Truthy(data)
             /\ elapsed <= 3 * update_interval(cfg) => ~stale

\* C3 witness: a one-hour coordinator holding data exactly three hours
\* after its last success, which is not stale.
C3_Witness ==
    /\ update_interval(cfg) = 1 * HOUR
    /\ last_successful_update # None
    /\ Truthy(data)
    /\ now - last_successful_update = 3 * HOUR
    /\ ~is_data_stale(cfg, data, last_successful_update, now)

Answered(out, status) == IsHTTPError(out) /\ out.status = status

\* C4: for a single-area target, a refresh one of whose queries is answered
\* with 401 raises UpdateFailed (Unauthorized), cache or no cache.
C4_UnauthorizedIsFatal ==
    ( /\ SingleAreaRefresh
      /\ \E i \in DOMAIN last.queries : Answered(last.queries[i].out, 401) )
    => last.outcome = "raised" /\ last.exc = UNAUTHORIZED

\* C5: for a single-area target, a refresh whose query is answered with 400
\* returns an empty series and raises nothing.
C5_BadRequestIsEmpty ==
    ( /\ SingleAreaRefresh
      /\ Answered(last.queries[1].out, 400) )
    => last.outcome = "returned" /\ last.value = EmptySeries

(***************************************************************************)
(* Suppression, recovery and the cache                                     *)
(***************************************************************************)

InSeq(k, seq) == \E i \in DOMAIN seq : seq[i] = k

QueriedIn(k) == \E i \in DOMAIN last.queries : last.queries[i].key = k
DeliveredBy(k) == \E i \in Delivered : last.queries[i].key = k
MissedBy(k) == QueriedIn(k) /\ ~DeliveredBy(k)

\* The thresholds and cooldowns as the claim states them.
ClaimedThreshold ==
    IF cfg.kind = "load" /\ cfg.horizon # "day_ahead" THEN 1 ELSE 3

ClaimedCooldown ==
    IF cfg.kind # "load" \/ cfg.horizon = "day_ahead" THEN 6
    ELSE IF cfg.horizon = "week_ahead" THEN 12
    ELSE IF cfg.horizon = "month_ahead" THEN 24
    ELSE 72

ReachesThreshold(k) ==
    MissedBy(k) /\ last.counts_before[k] + 1 = ClaimedThreshold

\* C11: an area becomes suppressed exactly in the aggregate refresh in which
\* a queried miss brings its counter to the threshold (3, or 1 for week-,
\* month- and year-ahead load); its deadline is then that refresh's now plus
\* the cooldown (6 h, 12 h, 1 day or 3 days), and any other queried miss
\* only adds one to the counter.
C11_SuppressedAtThreshold ==
    last.ran_aggregate =>
        \A k \in _area_keys :
            /\ last.counts_before[k] < ClaimedThreshold
            /\ ReachesThreshold(k) <=> InSeq(k, last.suppressed_this_run)
            /\ ReachesThreshold(k) =>
                  /\ _area_suppressed_until[k] = now + ClaimedCooldown
                  /\ _area_missing_counts[k] = 0
            /\ MissedBy(k) /\ ~ReachesThreshold(k) =>
                  /\ _area_missing_counts[k] = last.counts_before[k] + 1
                  /\ _area_suppressed_until[k] = None
            /\ ~ReachesThreshold(k) =>
                  _area_suppressed_until[k] \in {None, last.until_before[k]}

\* C11 witness: the generation coordinator suppresses an area on its third
\* miss in a row, until six hours after the refresh.
C11_Witness ==
    /\ last.ran_aggregate
    /\ cfg.kind = "generation"
    /\ \E k \in _area_keys :
          /\ MissedBy(k)
          /\ last.counts_before[k] = 2
          /\ InSeq(k, last.suppressed_this_run)
          /\ _area_suppressed_until[k] = now + 6

\* C12: after an aggregate refresh in which an area came back with data, the
\* area has miss counter 0, no suppression deadline and no last-suppressed
\* marker, and it is reported recovered exactly when the marker was set.
C12_SuccessClears ==
    last.ran_aggregate =>
        \A k \in _area_keys :
            DeliveredBy(k) =>
                /\ _area_missing_counts[k] = 0
                /\ _area_suppressed_until[k] = None
                /\ _area_last_suppressed[k] = None
                /\ InSeq(k, last.recovered_this_run)
                      <=> last.last_suppressed_before[k] # None

\* C12 witness: an area that had been suppressed, and had a miss counted
\* since, comes back with data and is reported recovered.
C12_Witness ==
    /\ last.ran_aggregate
    /\ \E k \in _area_keys :
          /\ DeliveredBy(k)
          /\ last.last_suppressed_before[k] # None
          /\ last.counts_before[k] > 0
          /\ InSeq(k, last.recovered_this_run)
          /\ _area_last_suppressed[k] = None
          /\ _area_missing_counts[k] = 0

\* The cache covers the window of the last refresh, as the claim states it.
CacheCovered ==
    /\ Truthy(last.cached)
    /\ \E t \in DOMAIN last.cached : t <= now - 24
    /\ \E t \in DOMAIN last.cached :
          t >= (now - 24) + look_ahead(cfg) - 1

\* C13: a refresh that finds the cached series covering the window, up to
\* one hour short of its end, issues no query and returns a series equal to
\* the cached one; any other refresh goes on to the queries.
C13_CacheShortCircuit ==
    Refreshed =>
        /\ CacheCovered =>
              /\ last.queries = << >>
              /\ last.outcome = "returned"
              /\ last.value = last.cached
        /\ ~CacheCovered =>
              /\ ~last.from_cache
              /\ IF IsAggregate(cfg) THEN last.ran_aggregate
                 ELSE last.queries # << >>

\* C13 witness: a refresh run one hour after the cached series was fetched,
\* which the series covers only thanks to the margin.
C13_Witness ==
    /\ Refreshed
    /\ CacheCovered
    /\ ~\E t \in DOMAIN last.cached : t >= (now - 24) + look_ahead(cfg)
    /\ last.queries = << >>
    /\ last.value = last.cached

\* C14: an aggregate refresh without cached data in which no area comes
\* back with data raises UpdateFailed.
C14_NoDataRaises ==
    ( /\ last.ran_aggregate
      /\ ~Truthy(last.cached)
      /\ Delivered = {} )
    => last.outcome = "raised" /\ last.exc \in {FAILED, UNAUTHORIZED}

\* C15: an aggregate refresh in which an area's query is answered with 401
\* raises the Unauthorized failure; the area is not counted as missing and
\* no area is queried after it.
C15_AggregateUnauthorized ==
    last.ran_aggregate =>
        \A i \in DOMAIN last.queries :
            Answered(last.queries[i].out, 401) =>
                /\ last.outcome = "raised" /\ last.exc = UNAUTHORIZED
                /\ last.queries[i].key \notin last.missing_areas
                /\ i = Len(last.queries)

References(c) ==
    { WindowStart - 1 * HOUR, WindowStart, 0, WindowEnd(c),
      WindowEnd(c) + 1 * HOUR, now }

\* C17: on a non-empty series, current(ref) is the latest timestamp <= ref
\* and so never later than ref, and next(ref) is the earliest timestamp
\* > ref, or None when there is none.
C17_CurrentAndNext ==
    Truthy(data) =>
        \A ref \in References(cfg) :
            LET current == _select_current_timestamp(data, ref)
                next == _select_next_timestamp(data, ref)
            IN  /\ current.found => current.timestamp <= ref
                /\ current.found =>
                      \A t \in DOMAIN data :
                          t <= ref => t <= current.timestamp
                /\ (\E t \in DOMAIN data : t <= ref) => current.found
                /\ next.found <=> \E t \in DOMAIN data : t > ref
                /\ next.found =>
                      /\ next.timestamp \in DOMAIN data
                      /\ next.timestamp > ref
                      /\ \A t \in DOMAIN data :
                            t > ref => next.timestamp <= t

(***************************************************************************)
(* Properties of the parser and of the merge step                          *)
(***************************************************************************)

Merged == merged.done

RECURSIVE SumAt(_, _, _)
SumAt(docs, t, i) ==
    IF i > Len(docs) THEN 0
    ELSE (IF t \in DOMAIN docs[i] THEN docs[i][t] ELSE 0) + SumAt(docs, t, i + 1)

RECURSIVE SumAtCategory(_, _, _, _)
SumAtCategory(docs, t, cat, i) ==
    IF i > Len(docs) THEN 0
    ELSE (IF t \in DOMAIN docs[i] /\ cat \in DOMAIN docs[i][t]
          THEN docs[i][t][cat] ELSE 0)
         + SumAtCategory(docs, t, cat, i + 1)

DocumentTimestamps(docs) == UNION { DOMAIN docs[i] : i \in DOMAIN docs }

DocumentCategories(docs, t) ==
    UNION { DOMAIN docs[i][t] : i \in {j \in DOMAIN docs : t \in DOMAIN docs[j]} }

\* C18: for each of the five queries, the series returned for a response
\* of several documents holds at each timestamp (and category) the sum of
\* the documents' values there.
C18_MergeIsSum ==
    Merged =>
        /\ DOMAIN merged.series = DocumentTimestamps(documents.docs)
        /\ \A t \in DOMAIN merged.series :
              IF QueryHasCategories(documents.query)
              THEN /\ DOMAIN merged.series[t]
                        = DocumentCategories(documents.docs, t)
                   /\ \A cat \in DOMAIN merged.series[t] :
                         merged.series[t][cat]
                           = SumAtCategory(documents.docs, t, cat, 1)
              ELSE merged.series[t] = SumAt(documents.docs, t, 1)

IsParsed == parse_result.done

IsHourly == period.resolution \in {"PT60M", "PT1H"}

IsQuarterHourly == period.resolution = "PT15M"

PositionsWithin(p) ==
    \A pos \in DOMAIN p.points : p.start + (pos - 1) * HOUR < p.end

FirstPosition(p) == SetMin(DOMAIN p.points)

\* C19 as stated: an hourly period with a point, all positions within the
\* interval, parses to one entry for each hour of [start, end) and none
\* outside.
C19_AsStated ==
    ( IsParsed /\ IsHourly /\ DOMAIN period.points # {}
      /\ PositionsWithin(period) )
    => DOMAIN parse_result.series = period.start..(period.end - 1 * HOUR)

\* C19: such a period parses to one entry for each hour from the hour of
\* its first position to the end of the interval and none outside: every
\* hour of [start, end) when position 1 is present.
C19_HourlyFromFirstPosition ==
    ( IsParsed /\ IsHourly /\ DOMAIN period.points # {}
      /\ PositionsWithin(period) )
    => /\ DOMAIN parse_result.series
            = (period.start + (FirstPosition(period) - 1) * HOUR)
                ..(period.end - 1 * HOUR)
       /\ 1 \in DOMAIN period.points
            => DOMAIN parse_result.series
                 = period.start..(period.end - 1 * HOUR)

\* C19 witness: an hourly period of three hours with position 1 only, whose
\* value is held over the other two hours.
C19_Witness ==
    /\ IsParsed /\ IsHourly
    /\ period.end - period.start = 3 * HOUR
    /\ DOMAIN period.points = {1}
    /\ DOMAIN parse_result.series = period.start..(period.start + 2 * HOUR)
    /\ parse_result.series[period.start + 2 * HOUR]
         = Float(period.points[1])

IsSupported == _normalize_resolution(period.resolution) # "unsupported"

\* The hours of [start, t) the processed points populate.
PopulatedBefore(t) ==
    {u \in DOMAIN parse_result.points : period.start <= u /\ u < t}

\* C28: after the fill, an hour of [start, end) the points populate keeps
\* its value, one they do not populate has the value of the nearest
\* earlier populated hour, or stays absent when no hour before it is
\* populated; the fill adds no hour at or after end.
C28_FillHoldsForward ==
    (IsParsed /\ IsSupported) =>
        /\ \A t \in period.start..(period.end - 1 * HOUR) :
              IF t \in DOMAIN parse_result.points
              THEN /\ t \in DOMAIN parse_result.series
                   /\ parse_result.series[t] = parse_result.points[t]
              ELSE IF PopulatedBefore(t) # {}
              THEN /\ t \in DOMAIN parse_result.series
                   /\ parse_result.series[t]
                        = parse_result.points[SetMax(PopulatedBefore(t))]
              ELSE t \notin DOMAIN parse_result.series
        /\ \A t \in DOMAIN parse_result.series :
              t >= period.end =>
                  /\ t \in DOMAIN parse_result.points
                  /\ parse_result.series[t] = parse_result.points[t]

\* C28 witness: an hourly period of three hours with position 2 only: the
\* first hour stays absent, the third takes the value of the second.
C28_Witness ==
    /\ IsParsed /\ IsHourly
    /\ period.end - period.start = 3 * HOUR
    /\ DOMAIN period.points = {2}
    /\ DOMAIN parse_result.series
         = {period.start + 1 * HOUR, period.start + 2 * HOUR}
    /\ parse_result.series[period.start + 2 * HOUR]
         = parse_result.points[period.start + 1 * HOUR]

Ceil4(n) == IF n % 4 = 0 THEN n \div 4 ELSE (n \div 4) + 1

\* The value the claim gives quarter idx: its own, else that of the nearest
\* earlier position present, else that of the first position present.
ClaimedQuarter(points, idx) ==
    IF idx \in DOMAIN points THEN points[idx]
    ELSE IF \E pos \in DOMAIN points : pos < idx
    THEN points[CHOOSE pos \in DOMAIN points :
                    /\ pos < idx
                    /\ \A q \in DOMAIN points : q < idx => q <= pos]
    ELSE points[CHOOSE pos \in DOMAIN points :
                    \A q \in DOMAIN points : pos <= q]

\* Four times the mean of the quarters of an hour, which is the mean in
\* quarters of a hundredth.
ClaimedMean(points, hour) ==
    ClaimedQuarter(points, 4 * hour + 1) + ClaimedQuarter(points, 4 * hour + 2)
    + ClaimedQuarter(points, 4 * hour + 3) + ClaimedQuarter(points, 4 * hour + 4)

ClaimedHours(p) ==
    { p.start + hour * HOUR :
        hour \in 0..(Ceil4(SetMax(DOMAIN p.points)) - 1) }

Abs(n) == IF n < 0 THEN 0 - n ELSE n

\* C20 as stated: the points of a quarter-hourly period give the hours
\* 0 .. ceil(max_position / 4) - 1, each with the exact mean of its four
\* quarters after substitution.
C20_AsStated ==
    ( IsParsed /\ IsQuarterHourly /\ DOMAIN period.points # {} )
    => /\ DOMAIN parse_result.points = ClaimedHours(period)
       /\ \A t \in DOMAIN parse_result.points :
             parse_result.points[t]
               = ClaimedMean(period.points, (t - period.start) \div HOUR)

\* C20: they give those hours, each with the mean of its four quarters
\* after substitution: the exact mean when no rounding is asked for, and
\* a hundredth nearest the mean when values are rounded to two decimals.
C20_QuarterHourMean ==
    ( IsParsed /\ IsQuarterHourly /\ DOMAIN period.points # {} )
    => /\ DOMAIN parse_result.points = ClaimedHours(period)
       /\ \A t \in DOMAIN parse_result.points :
             LET mean == ClaimedMean(period.points,
                                     (t - period.start) \div HOUR)
             IN  IF period.round_digits = NoRounding
                 THEN parse_result.points[t] = mean
                 ELSE /\ parse_result.points[t] % 4 = 0
                      /\ Abs(parse_result.points[t] - mean) <= 2

\* C20 witness: an hour with its four quarters present whose mean has more
\* than two decimals and is delivered rounded.
C20_Witness ==
    /\ IsParsed /\ IsQuarterHourly
    /\ period.round_digits # NoRounding
    /\ DOMAIN period.points = 1..4
    /\ ClaimedMean(period.points, 0) % 4 # 0
    /\ parse_result.points[period.start] # ClaimedMean(period.points, 0)
    /\ Abs(parse_result.points[period.start]
             - ClaimedMean(period.points, 0)) <= 2

(***************************************************************************)
(* Properties of _base_request                                             *)
(***************************************************************************)

Requested == br_result.exc # "idle"
Contacted == Len(br_result.calls)

IsSuccess(b) == b.exc = "none" /\ b.status < 400
IsClientError(b) == b.exc = "none" /\ b.status >= 400 /\ b.status < 500
IsServerError(b) == b.exc = "none" /\ b.status >= 500 /\ b.status < 600
IsNetworkError(b) == b.exc # "none"
IsTransient(b) ==
    IsNetworkError(b) \/ (b.exc = "none" /\ b.status \in {500, 502, 503, 504})

\* The endpoints are contacted in BASE_URLS order, once each, none after a
\* success, and the first response that is no HTTP error is returned.
InOrderUntilSuccess ==
    /\ Contacted >= 1
    /\ br_result.calls = SubSeq(BASE_URLS, 1, Contacted)
    /\ \A i \in 1..Contacted :
          IsSuccess(br_responses[i]) => i = Contacted /\ ~br_result.raised
    /\ ~br_result.raised =>
          /\ IsSuccess(br_responses[Contacted])
          /\ br_result.status = br_responses[Contacted].status

\* C6 as stated: in order, one GET each, the first response that is no HTTP
\* error returned, and the next endpoint tried exactly when the current one
\* failed with a 5xx status or a network-level exception.
C6_AsStated ==
    Requested =>
        /\ InOrderUntilSuccess
        /\ \A i \in 1..(Len(BASE_URLS) - 1) :
              i <= Contacted =>
                 ( (i + 1 <= Contacted)
                     <=> (IsServerError(br_responses[i])
                            \/ IsNetworkError(br_responses[i])) )

\* C6: in order, one GET each, the first response that is no HTTP error
\* returned, and the next endpoint tried exactly when the current one
\* answered 500, 502, 503 or 504 or raised a network-level exception.
C6_FailoverOrder ==
    Requested =>
        /\ InOrderUntilSuccess
        /\ \A i \in 1..(Len(BASE_URLS) - 1) :
              i <= Contacted =>
                 ((i + 1 <= Contacted) <=> IsTransient(br_responses[i]))

\* C6 witness: the first endpoint answers 503, the second 200, and the 200
\* response is returned after both were contacted.
C6_Witness ==
    /\ Requested
    /\ br_responses[1] = Answer(503)
    /\ br_responses[2] = Answer(200)
    /\ br_result.calls = BASE_URLS
    /\ ~br_result.raised /\ br_result.status = 200

\* C7: an endpoint that answers with a 4xx status is the last one contacted,
\* and the request raises that HTTP error.
C7_ClientErrorRaises ==
    Requested =>
        \A i \in 1..Contacted :
            IsClientError(br_responses[i]) =>
                /\ i = Contacted
                /\ br_result.raised
                /\ br_result.exc = "HTTPError"
                /\ br_result.status = br_responses[i].status

\* C7 witness: the first endpoint answers 404 and the second, which would
\* have answered 200, is not contacted.
C7_Witness ==
    /\ Requested
    /\ br_responses[1] = Answer(404)
    /\ br_responses[2] = Answer(200)
    /\ Contacted = 1
    /\ br_result.raised /\ br_result.status = 404

\* The error endpoint behaviour b leaves behind.
ErrorOf(b) ==
    IF b.exc = "none" THEN [exc |-> "HTTPError", status |-> b.status]
    ELSE [exc |-> b.exc, status |-> 0]

RaisesLastError ==
    /\ br_result.raised
    /\ Contacted = Len(BASE_URLS)
    /\ [exc |-> br_result.exc, status |-> br_result.status]
          = ErrorOf(br_responses[Len(BASE_URLS)])

\* C8 as stated: when every endpoint fails with a 5xx status or a
\* network-level exception, the error of the last endpoint is raised after
\* exactly len(BASE_URLS) GETs.
C8_AsStated ==
    ( /\ Requested
      /\ \A i \in 1..Len(BASE_URLS) :
            IsServerError(br_responses[i]) \/ IsNetworkError(br_responses[i]) )
    => RaisesLastError

\* C8: when every endpoint answers 500, 502, 503 or 504 or raises a
\* network-level exception, the error of the last endpoint is raised after
\* exactly len(BASE_URLS) GETs.
C8_ExhaustedRaisesLast ==
    ( /\ Requested
      /\ \A i \in 1..Len(BASE_URLS) : IsTransient(br_responses[i]) )
    => RaisesLastError

\* C8 witness: the first endpoint answers 504, the second cannot be
\* connected to, and the connection error is raised after two GETs.
C8_Witness ==
    /\ Requested
    /\ br_responses[1] = Answer(504)
    /\ br_responses[2] = NetFail("ConnectionError")
    /\ Contacted = 2
    /\ br_result.raised /\ br_result.exc = "ConnectionError"

(***************************************************************************)
(* Properties of the generation series                                     *)
(***************************************************************************)

\* The sum of the categories of values other than total_generation.
SumOfOthers(values) == SumOver(values, DOMAIN values \ {TOTAL_KEY})

HasTotals(series) ==
    \A t \in DOMAIN series :
        /\ TOTAL_KEY \in DOMAIN series[t]
        /\ series[t][TOTAL_KEY] = SumOfOthers(series[t])

\* C23: whatever a refresh of a generation coordinator returns, fresh or
\* cached, and so the series the coordinator holds, carries at each
\* timestamp a total_generation equal to the sum of the other categories.
C23_TotalIsSumOfOthers ==
    cfg.kind = "generation" =>
        /\ HasTotals(data)
        /\ (Refreshed /\ last.outcome = "returned") => HasTotals(last.value)

\* C23 witness: a fresh series of an aggregate and a series served from the
\* cache, each with a total over two categories.
C23_Witness ==
    /\ cfg.kind = "generation"
    /\ Refreshed
    /\ last.outcome = "returned"
    /\ last.from_cache
    /\ \E t \in DOMAIN last.value :
          /\ {"solar", "wind_onshore", TOTAL_KEY} \subseteq DOMAIN last.value[t]
          /\ last.value[t][TOTAL_KEY] >= 3
          /\ last.value[t][TOTAL_KEY]
               = last.value[t]["solar"] + last.value[t]["wind_onshore"]

(***************************************************************************)
(* Properties of the coordinators of one entry                             *)
(***************************************************************************)

IsRead ==
    /\ reading'.kind # "none"
    /\ \/ reading'.kind # reading.kind
       \/ reading'.ref # reading.ref
       \/ reading'.category # reading.category
       \/ reading'.calls # reading.calls

IsDocumentParsed == xml_document.done

WellFormed(p) == p.missing = "none"

Supported(p) == _normalize_resolution(p.resolution) # "unsupported"

\* The series of the document with its first period only.
FirstPeriodOnly ==
    parse_document(xml_document.kind,
                   << xml_document.periods[1] >>).series

\* C29: in every kind of document, when the two periods of a series start
\* at the same timestamp the second is skipped: the series is that of the
\* first period alone.
C29_FirstPeriodWins ==
    ( /\ IsDocumentParsed
      /\ \A i \in DOMAIN xml_document.periods :
            WellFormed(xml_document.periods[i])
              /\ Supported(xml_document.periods[i])
      /\ xml_document.periods[1].start = xml_document.periods[2].start )
    => /\ ~xml_document.raised
       /\ xml_document.series = FirstPeriodOnly

\* The series of the document without its periods that lack an element
\* or have an unsupported resolution.
OtherPeriodsOnly ==
    parse_document(xml_document.kind,
                   SelectSeq(xml_document.periods,
                             LAMBDA p : WellFormed(p) /\ Supported(p))).series

\* C30: a period that lacks a required element, or has an unsupported
\* resolution, does not keep the other periods of the document from being
\* processed and their values returned.
C30_OtherPeriodsProcessed ==
    IsDocumentParsed =>
        /\ ~xml_document.raised
        /\ xml_document.series = OtherPeriodsOnly

(***************************************************************************)
(* Properties of the setup of an entry                                     *)
(***************************************************************************)

Range(seq) == {seq[i] : i \in DOMAIN seq}

\* C25: async_setup_entry creates one coordinator for each enabled target,
\* runs the first refresh of each created coordinator at most once and,
\* by the time the platform setup is forwarded, exactly once and to its
\* end; when a first refresh raises the setup fails and the platform setup
\* is not forwarded.
C25_SetupOrder ==
    setup.pc \notin {"idle", "called"} =>
        /\ Range(setup.data) = setup.enabled
        /\ Len(setup.data) = Cardinality(setup.enabled)
        /\ setup.refresh_tasks = setup.data
        /\ \A key \in SetupKeys :
              setup.runs[key] <= (IF key \in setup.enabled THEN 1 ELSE 0)
        /\ setup.forwarded =>
              \A key \in setup.enabled :
                  setup.runs[key] = 1 /\ key \in setup.finished
        /\ setup.finished \cap setup.raising # {} =>
              ~setup.forwarded /\ setup.result # "true"
        /\ setup.pc = "failed" => setup.result = "raised"

\* C25 witness: an entry with several targets enabled is set up and its
\* platform setup forwarded.
C25_Witness ==
    /\ setup.pc = "done"
    /\ setup.forwarded
    /\ Cardinality(setup.enabled) >= 2
    /\ \A key \in setup.enabled : setup.runs[key] = 1

(***************************************************************************)
(* Properties of the area enumeration                                      *)
(***************************************************************************)

NameMatches(text) ==
    \E i \in DOMAIN AREA_MEMBERS :
        /\ text.part = "whole"
        /\ text.base = AREA_MEMBERS[i].name

ValueMatches(text) ==
    \E i \in DOMAIN AREA_MEMBERS :
        /\ text.part = "whole"
        /\ text.base = AREA_MEMBERS[i].value

ValueOfName(name) ==
    (CHOOSE m \in {AREA_MEMBERS[i] : i \in DOMAIN AREA_MEMBERS} :
        m.name = name).value

\* C26: has_code(s) holds exactly when from_identifier(s) succeeds, and
\* from_identifier resolves by name in any casing, then by exact value,
\* then by upper-cased value, and raises when none matches; a part of a
\* name or value matches nothing.
C26_HasCodeIffResolves ==
    lookup.done =>
        LET s == lookup.identifier
            r == lookup.resolved
        IN  /\ lookup.has_code <=> ~r.raised
            /\ IF NameMatches(s)
               THEN /\ ~r.raised /\ r.step = "name"
                    /\ ValueOfName(r.area) = ValueOfName(s.base)
               ELSE IF ValueMatches(s) /\ s.casing = "upper"
               THEN ~r.raised /\ r.step = "value"
                    /\ ValueOfName(r.area) = s.base
               ELSE IF ValueMatches(s)
               THEN ~r.raised /\ r.step = "upper value"
                    /\ ValueOfName(r.area) = s.base
               ELSE r.raised
            /\ s.part = "part" => r.raised

\* C26 witness: a value written in lower case, which has_code accepts and
\* from_identifier resolves by its upper-cased form.
C26_Witness ==
    /\ lookup.done
    /\ lookup.identifier = Str("10YBE----------2", "lower", "whole")
    /\ lookup.has_code
    /\ lookup.resolved = Resolved("BE", "upper value")

(***************************************************************************)
(* Properties of the retrying session and of the request rate              *)
(***************************************************************************)

Fetched == session.runs # << >> /\ br_result # BrIdle

AttemptsAt(i) == session.attempts[i]

IsTransientAttempt(outcome) ==
    \/ outcome.exc # "none"
    \/ outcome.status \in {500, 502, 503, 504}

\* C21 as stated: at most 3 HTTP attempts go to each endpoint, and the
\* fallback is contacted only after the primary's attempts are exhausted.
C21_AsStated ==
    Fetched =>
        \A i \in 1..Len(BASE_URLS) :
            /\ AttemptsAt(i) <= 3
            /\ (i > 1 /\ AttemptsAt(i) > 0) => AttemptsAt(i - 1) = 3

\* C21: at most 4 HTTP attempts go to each endpoint, the first and three
\* retries, each but the last having met a connection failure or a
\* 500/502/503/504; the fallback is contacted only after the primary's
\* four attempts, the last of which failed in that way too.
C21_RetryCeiling ==
    Fetched =>
        \A i \in 1..Len(BASE_URLS) :
            /\ AttemptsAt(i) <= 1 + RETRY_TOTAL
            /\ \A k \in 1..(AttemptsAt(i) - 1) :
                  IsTransientAttempt(session.runs[i][k])
            /\ (i > 1 /\ AttemptsAt(i) > 0) =>
                  /\ AttemptsAt(i - 1) = 1 + RETRY_TOTAL
                  /\ IsTransientAttempt(session.runs[i - 1][1 + RETRY_TOTAL])
            /\ (i > Len(br_result.calls)) <=> AttemptsAt(i) = 0

\* C21 witness: the primary answers 503 to four attempts, the fallback 200
\* to the first, and the request returns that response.
C21_Witness ==
    /\ Fetched
    /\ \A k \in 1..4 : session.runs[1][k] = Answer(503)
    /\ session.runs[2][1] = Answer(200)
    /\ session.attempts = << 4, 1 >>
    /\ ~br_result.raised
    /\ br_result.status = 200

\* C22: two requests of one client are at least REQUEST_DELAY apart.
C22_MinimumDelay ==
    Len(timing.issued) = 2 =>
        timing.issued[2] - timing.issued[1] >= REQUEST_DELAY

(***************************************************************************)
(* Properties of the aggregate loop                                        *)
(***************************************************************************)

\* C9: in one aggregate refresh every code is queried at most once, the
\* TOTAL_EUROPE entry is not queried, and the series the loop returns holds
\* at each timestamp (and category) the sum of what the queried areas
\* returned there.
C9_DedupAndSum ==
    last.ran_aggregate =>
        /\ \A i, j \in DOMAIN last.queries :
              last.queries[i].code = last.queries[j].code => i = j
        /\ \A i \in DOMAIN last.queries :
              /\ last.queries[i].key # TOTAL_EUROPE_AREA
              /\ last.queries[i].code # "10Y1001A1001A876"
              /\ \A j \in 1..Len(AREA_INFO) :
                    AREA_INFO[j].key = last.queries[i].key =>
                       ~\E e \in 1..(j - 1) :
                            AREA_INFO[e].code = AREA_INFO[j].code
        /\ IsSumOfDelivered(last.aggregate)

\* C9 witness: both codes were queried, both came back with data, and the
\* area that shares its code with an earlier one was not asked.
C9_Witness ==
    /\ last.ran_aggregate
    /\ Len(last.queries) = 2
    /\ Delivered = {1, 2}
    /\ \A i \in DOMAIN last.queries : last.queries[i].key # "DE"
    /\ IsSumOfDelivered(last.aggregate)

SuppressedAt(k) ==
    last.until_before[k] # None /\ last.until_before[k] > now

\* C10: in an aggregate refresh, an area whose suppression deadline is later
\* than the refresh's now is not queried, is reported missing, and keeps its
\* miss counter and its deadline.
C10_SuppressedIsSkipped ==
    last.ran_aggregate =>
        \A k \in _area_keys :
            SuppressedAt(k) =>
                /\ \A i \in DOMAIN last.queries : last.queries[i].key # k
                /\ k \in last.missing_areas
                /\ _area_missing_counts[k] = last.counts_before[k]
                /\ _area_suppressed_until[k] = last.until_before[k]

\* C10 witness: an aggregate refresh run while an area was suppressed, which
\* reported the area missing without asking it.
C10_Witness ==
    /\ last.ran_aggregate
    /\ \E k \in _area_keys :
          /\ SuppressedAt(k)
          /\ k \in last.missing_areas
          /\ \A i \in DOMAIN last.queries : last.queries[i].key # k

\* The queries of the last refresh that came back with a series of zeros.
ZeroOnly ==
    { i \in DOMAIN last.queries :
        /\ ~last.queries[i].out.raised
        /\ Truthy(last.queries[i].out.value)
        /\ ~HasNonZero(cfg, last.queries[i].out.value) }

\* C33: in an aggregate refresh, an area whose series is not empty and
\* holds zeros only is flagged zero-only and not missing, its miss counter
\* is 0 and it is not suppressed afterwards, and its values are part of the
\* sum.
C33_ZeroOnlyIsSuccess ==
    last.ran_aggregate =>
        /\ \A i \in ZeroOnly :
              LET k == last.queries[i].key
              IN  /\ k \in last.zero_only_areas
                  /\ k \notin last.missing_areas
                  /\ _area_missing_counts[k] = 0
                  /\ \A j \in DOMAIN last.suppressed_this_run :
                        last.suppressed_this_run[j] # k
                  /\ _area_suppressed_until[k] = None
                  /\ i \in Delivered
        /\ IsSumOfDelivered(last.aggregate)

\* C33 witness: an area that had missed before returns zeros only, next to
\* an area that returns other values.
C33_Witness ==
    /\ last.ran_aggregate
    /\ \E i \in ZeroOnly :
          /\ last.counts_before[last.queries[i].key] > 0
          /\ last.queries[i].key \in last.zero_only_areas
          /\ _area_missing_counts[last.queries[i].key] = 0
    /\ Delivered \ ZeroOnly # {}

SuppressedThisRun ==
    {last.suppressed_this_run[j] : j \in DOMAIN last.suppressed_this_run}

\* C34: every area's miss counter lies in 0 .. threshold - 1; after an
\* aggregate refresh it is 0 for an area that returned data and for an area
\* the refresh suppressed, and it is what it was for an area that was
\* suppressed during the refresh.
C34_MissCounterRange ==
    /\ \A k \in _area_keys :
          /\ _area_missing_counts[k] >= 0
          /\ _area_missing_counts[k] <= _missing_threshold(cfg) - 1
    /\ last.ran_aggregate =>
          /\ \A i \in Delivered :
                _area_missing_counts[last.queries[i].key] = 0
          /\ \A k \in SuppressedThisRun : _area_missing_counts[k] = 0
          /\ \A k \in _area_keys :
                SuppressedAt(k) =>
                    _area_missing_counts[k] = last.counts_before[k]

\* C34 witness: a refresh in which an area reaches the threshold from a
\* counter above 0 and is suppressed, its counter back at 0.
C34_Witness ==
    /\ last.ran_aggregate
    /\ \E k \in SuppressedThisRun :
          /\ last.counts_before[k] = _missing_threshold(cfg) - 1
          /\ last.counts_before[k] > 0
          /\ _area_missing_counts[k] = 0
          /\ _area_suppressed_until[k] = now + _suppression_duration(cfg)

\* The deadline of area k had passed when the last refresh ran.
ExpiredAt(k) ==
    last.until_before[k] # None /\ last.until_before[k] <= now

QueriedKeys == {last.queries[i].key : i \in DOMAIN last.queries}

\* C35: a refresh leaves a deadline that is still ahead as it is; an
\* aggregate refresh that runs the loop at or after an area's deadline
\* removes the deadline and queries the area, which afterwards has no
\* deadline or, suppressed again by this refresh, a new one.
C35_DeadlineNotExtended ==
    /\ Refreshed =>
          \A k \in _area_keys :
              SuppressedAt(k) =>
                  _area_suppressed_until[k] = last.until_before[k]
    /\ last.ran_aggregate =>
          \A k \in _area_keys :
              ExpiredAt(k) =>
                  /\ k \in QueriedKeys
                  /\ IF k \in SuppressedThisRun
                     THEN _area_suppressed_until[k]
                            = now + _suppression_duration(cfg)
                     ELSE _area_suppressed_until[k] = None

\* C35 witness: an area is queried again in a refresh at its deadline and,
\* returning data, is left without a deadline.
C35_Witness ==
    /\ last.ran_aggregate
    /\ \E k \in _area_keys :
          /\ ExpiredAt(k)
          /\ k \in QueriedKeys
          /\ k \notin last.missing_areas
          /\ _area_suppressed_until[k] = None

(***************************************************************************)
(* Properties of the per-area series                                       *)
(***************************************************************************)

\* get_area_keys: "return sorted(self._area_data.keys())", as a set.
get_area_keys == DOMAIN _area_data

\* C37: while the coordinator stays the same, every key of get_area_keys()
\* stays, and the series of an area is new or different only when a query
\* of that area in the refresh came back with that non-empty series.
C37_AreaSeriesKept ==
    [][ cfg' = cfg =>
          /\ get_area_keys \subseteq get_area_keys'
          /\ \A k \in get_area_keys' :
                ( \/ k \notin get_area_keys
                  \/ _area_data'[k] # _area_data[k] ) =>
                    /\ Truthy(_area_data'[k])
                    /\ \E i \in DOMAIN last'.queries :
                          /\ last'.queries[i].key = k
                          /\ ~last'.queries[i].out.raised
                          /\ last'.queries[i].out.value = _area_data'[k] ]_vars

\* C37 witness: an aggregate refresh in which an area with a stored series
\* was suppressed, and one that failed or returned nothing, both still
\* listed by get_area_keys().
C37_Witness ==
    /\ last.ran_aggregate
    /\ \E k \in get_area_keys :
          /\ Truthy(_area_data[k])
          /\ SuppressedAt(k)
    /\ \E k \in get_area_keys :
          /\ Truthy(_area_data[k])
          /\ ~SuppressedAt(k)
          /\ k \in last.missing_areas

(***************************************************************************)
(* Properties of categories()                                              *)
(***************************************************************************)

\* categories: "return sorted(self._available_categories)", as a set.
categories == _available_categories

\* C38: after a refresh of a generation or wind/solar coordinator that
\* returned, categories() is the set of category keys of the returned
\* series, and is empty when that series is empty.
C38_CategoriesMatchSeries ==
    ( /\ HasCategories(cfg)
      /\ last.outcome = "returned" ) =>
        /\ categories = CategoriesOf(last.value)
        /\ ~Truthy(last.value) => categories = {}

\* C38 witness: a refresh returned the cached series, with categories, by
\* a fallback after a failed query.
C38_Witness ==
    /\ HasCategories(cfg)
    /\ last.outcome = "returned"
    /\ ~last.from_cache
    /\ Delivered = {}
    /\ last.queries # << >>
    /\ Truthy(last.value)
    /\ categories # {}

(***************************************************************************)
(* Properties of last_successful_update                                    *)
(***************************************************************************)

\* The last refresh returned the cached series: by the short-circuit, or
\* as a series though none of its queries came back with data.
ServedFromCache ==
    \/ last.from_cache
    \/ /\ last.outcome = "returned"
       /\ Delivered = {}
       /\ Truthy(last.value)

\* Some query of the last refresh came back without an exception.
SomeQueryAnswered ==
    \E i \in DOMAIN last.queries : ~last.queries[i].out.raised

\* C36: a refresh served from the cache leaves last_successful_update as
\* it is; the timestamp changes only in a refresh that returns what its
\* queries fetched (a non-empty series, except for the generation
\* forecast), and becomes now; so a target served from its cache is stale
\* once 3 x update_interval has passed since the last fetch.
C36_CacheKeepsLastSuccess ==
    [][ last'.outcome # "none" =>
          /\ ServedFromCache' =>
                /\ last_successful_update' = last_successful_update
                /\ ( /\ last_successful_update # None
                     /\ now - last_successful_update
                          > STALENESS_MULTIPLIER * update_interval(cfg) )
                   => is_data_stale(cfg', data', last_successful_update',
                                    now')
          /\ last_successful_update' # last_successful_update =>
                /\ last_successful_update' = now
                /\ last'.outcome = "returned"
                /\ ~last'.from_cache
                /\ SomeQueryAnswered'
                /\ cfg.kind # "generation_forecast" =>
                      Truthy(last'.value) ]_vars

\* C36 as stated: a refresh served from the cache leaves the timestamp as
\* it is, and the timestamp changes only in a refresh that returns a
\* non-empty series fetched by its own queries.
C36_AsStated ==
    [][ last'.outcome # "none" =>
          /\ ServedFromCache' =>
                last_successful_update' = last_successful_update
          /\ last_successful_update' # last_successful_update =>
                /\ last'.outcome = "returned"
                /\ ~last'.from_cache
                /\ Truthy(last'.value) ]_vars

\* C36 witness: a refresh has returned the cached series more than three
\* update intervals after the last fetch, and the coordinator is stale.
C36_Witness ==
    /\ ServedFromCache
    /\ Truthy(data)
    /\ last_successful_update # None
    /\ now - last_successful_update
         > STALENESS_MULTIPLIER * update_interval(cfg)
    /\ is_data_stale(cfg, data, last_successful_update, now)

(***************************************************************************)
(* Properties of the generation forecast coordinator                       *)
(***************************************************************************)

\* The query for the whole window failed with an exception that signals a
\* timeout.
FullWindowTimedOut ==
    /\ Refreshed
    /\ ~last.from_cache
    /\ last.queries # << >>
    /\ last.queries[1].out.raised
    /\ last.queries[1].out.exc \in {"Timeout", PLAIN_TIMEOUT}

\* The chunk queries of the last refresh that came back with data.
ChunksDelivered ==
    { i \in DOMAIN last.queries :
        /\ i > 1
        /\ ~last.queries[i].out.raised
        /\ Truthy(last.queries[i].out.value) }

\* C31: when the query for the whole window of the generation forecast
\* fails with an exception signalling a timeout, the refresh queries the
\* window again in chunks (more than one query in all) and, when chunk
\* queries return data, returns data and does not raise.
C31_TimeoutRecoversInChunks ==
    FullWindowTimedOut =>
        /\ Len(last.queries) > 1
        /\ ChunksDelivered # {} =>
              last.outcome = "returned" /\ Truthy(last.value)

\* The refresh went on to fetch the window in chunks.
Chunked ==
    /\ Refreshed
    /\ cfg.kind = "generation_forecast"
    /\ ~last.from_cache
    /\ last.queries # << >>
    /\ IsTimeoutError(last.queries[1].out)

\* The chunk queries, in the order they were made, after the query for the
\* whole window.
ChunkQueries == Tail(last.queries)

ChunkFailed(q) == IsRequestException(q.out)

ChunkBroke(q) == IsRequestException(q.out) /\ ~IsTimeoutError(q.out)

\* C39: the chunk windows start at start, each is at most a day and not
\* empty, each begins where the one before ended and none passes end; a
\* chunk that timed out is followed by the next chunk, a chunk that failed
\* otherwise is the last one, and without such a failure the windows reach
\* end; the fetch returns the sum of the chunks that came back with data
\* when there is one, raises when there is none and a chunk failed (the
\* coordinator then falls back on its cache or fails), and otherwise
\* returns an empty series.
C39_ChunkedFetch ==
    Chunked =>
        LET start == now - 1 * DAY
            end == start + 3 * DAY
            q == ChunkQueries
            n == Len(q)
        IN  /\ n >= 1
            /\ q[1].start = start
            /\ \A i \in 1..n :
                  /\ q[i].start < q[i].end
                  /\ q[i].end = Min(q[i].start + 1 * DAY, end)
                  /\ i < n =>
                        /\ q[i + 1].start = q[i].end
                        /\ ~ChunkBroke(q[i])
            /\ ~ChunkBroke(q[n]) => q[n].end = end
            /\ IF ChunksDelivered # {}
               THEN /\ last.outcome = "returned"
                    /\ last.value =
                          [t \in UNION { DOMAIN DeliveredSeries(i) :
                                            i \in ChunksDelivered } |->
                              ScalarSum(ChunksDelivered, t)]
               ELSE IF \E i \in 1..n : ChunkFailed(q[i])
               THEN IF Truthy(last.cached)
                    THEN /\ last.outcome = "returned"
                         /\ last.value = last.cached
                    ELSE last.outcome = "raised"
               ELSE /\ last.outcome = "returned"
                    /\ ~Truthy(last.value)

\* C39 witness: a chunk timed out, a later chunk came back with data, and
\* the refresh returned data.
C39_Witness ==
    /\ Chunked
    /\ \E i, j \in DOMAIN last.queries :
          /\ 1 < i
          /\ i < j
          /\ IsTimeoutError(last.queries[i].out)
          /\ j \in ChunksDelivered
    /\ last.outcome = "returned"
    /\ Truthy(last.value)

(***************************************************************************)
(* Properties of the generation sensor                                     *)
(***************************************************************************)

\* The coordinator's series holds the sensor's category at the current
\* hour.
HasCategoryNow ==
    /\ Truthy(data)
    /\ now \in DOMAIN data
    /\ sensor.category \in DOMAIN data[now]

ReportsCurrentValue ==
    /\ SensorAvailable
    /\ sensor.native_value = Known(data[now][sensor.category])

====
